---- MODULE Spec2Model ----
(***************************************************************************)
(* System parameters of the ECS (crates/bevy_ecs/src/system/               *)
(* system_param.rs): registration of the World accesses of each            *)
(* SystemParam in a SystemMeta (init_state), the conflict checks made      *)
(* there, and the production of the parameter items (get_param).           *)
(*                                                                         *)
(* Access, FilteredAccess, FilteredAccessSet, SystemMeta, QueryState and   *)
(* the impl_param_set! macro are defined outside system_param.rs; their    *)
(* operators below follow the design document (sections 3, 4.1, 4.5).      *)
(***************************************************************************)
EXTENDS Integers, Sequences, FiniteSets, TLC

(***************************************************************************)
(* Bounds of the model.                                                    *)
(***************************************************************************)
\* largest number of parameters declared by the system that is built
MaxParams == 3
\* largest number of parameters of a system that is invoked
MaxRunParams == 2
\* width in bits of a change tick, which is a wrapping u32 in the program
TickBits == 3

\* ComponentIds of the resource types R1, R2
ResourceIds == {1, 2}
\* ComponentIds of the component types: a data component C and a marker M
CompC == Cardinality(ResourceIds) + 1
CompM == Cardinality(ResourceIds) + 2
ComponentIds == ResourceIds \cup {CompC, CompM}

\* the systems of the stage
Systems == {1, 2}
\* the system whose build is followed step by step
Built == 1

VARIABLES
    resources,      \* World: slot -> [present, added, changed]
    archetypes,     \* World: the ArchetypeIds that exist
    world_tick,     \* World: the change tick
    removed,        \* World: ComponentId -> the entities it was removed from
    params,         \* system -> the parameters declared so far, in order
    system_meta,    \* system -> SystemMeta
    param_state,    \* system -> the State of each parameter, by position
    status,         \* system -> "building" | "built" | "panicked"
    diagnostic,     \* system -> what the panic message of its build says
    phase,          \* system -> "idle" | "fetching" | "running" | "panicked"
    fetched,        \* system -> number of parameters get_param has produced
    items,          \* system -> the items of the invocation, by position
    handles,        \* system -> the live borrows of the World
    run_tick,       \* system -> change_tick passed to the invocation
    gizmos          \* GizmoBuffer: enabled, the live arc builder, what was drawn

vars == << resources, archetypes, world_tick, removed, params, system_meta, param_state,
           status, diagnostic, phase, fetched, items, handles, run_tick,
           gizmos >>

worldVars == << resources, archetypes, world_tick, removed >>
buildVars == << params, system_meta, param_state, status, diagnostic >>
runVars == << phase, fetched, items, handles, run_tick >>

(***************************************************************************)
(* Access<T>: which indices are read and written (design section 4.1).     *)
(***************************************************************************)
Access_default == [reads_all |-> FALSE, reads_and_writes |-> {}, writes |-> {}]

add_read(a, index) ==
    [a EXCEPT !.reads_and_writes = @ \cup {index}]

add_write(a, index) ==
    [a EXCEPT !.reads_and_writes = @ \cup {index}, !.writes = @ \cup {index}]

read_all(a) == [a EXCEPT !.reads_all = TRUE]

has_read(a, index) == a.reads_all \/ index \in a.reads_and_writes

has_write(a, index) == index \in a.writes

extend(a, other) ==
    [reads_all |-> a.reads_all \/ other.reads_all,
     reads_and_writes |-> a.reads_and_writes \cup other.reads_and_writes,
     writes |-> a.writes \cup other.writes]

\* true iff no index is written by one side and read or written by the
\* other; reads_all reads every index
\* an is_compatible that looks at reads_all of one side first
is_compatible_reads_all_first(a, other) ==
    IF a.reads_all THEN other.writes = {}
    ELSE IF other.reads_all THEN a.writes = {}
    ELSE /\ a.writes \cap other.reads_and_writes = {}
         /\ a.reads_and_writes \cap other.writes = {}

is_compatible(a, other) ==
    /\ a.reads_all => other.writes = {}
    /\ other.reads_all => a.writes = {}
    /\ a.writes \cap other.reads_and_writes = {}
    /\ a.reads_and_writes \cap other.writes = {}

\* a get_conflicts that compares the recorded slots only and leaves
\* reads_all out
get_conflicts_recorded_only(a, other) ==
    (a.writes \cap other.reads_and_writes)
    \cup (a.reads_and_writes \cap other.writes)

get_conflicts(a, other) ==
    (IF a.reads_all THEN other.writes ELSE {})
    \cup (IF other.reads_all THEN a.writes ELSE {})
    \cup (a.writes \cap other.reads_and_writes)
    \cup (a.reads_and_writes \cap other.writes)

(***************************************************************************)
(* FilteredAccess<T>: an Access with the With/Without filters of a query.  *)
(***************************************************************************)
FilteredAccess_default == [access |-> Access_default, with |-> {}, without |-> {}]

FilteredAccess_add_read(f, index) ==
    [f EXCEPT !.access = add_read(@, index), !.with = @ \cup {index}]

FilteredAccess_add_write(f, index) ==
    [f EXCEPT !.access = add_write(@, index), !.with = @ \cup {index}]

FilteredAccess_read_all(f) == [f EXCEPT !.access = read_all(@)]

FilteredAccess_is_compatible(f, other) ==
    \/ is_compatible(f.access, other.access)
    \/ f.with \cap other.without # {}
    \/ f.without \cap other.with # {}

FilteredAccess_get_conflicts(f, other) ==
    IF FilteredAccess_is_compatible(f, other) THEN {}
    ELSE get_conflicts(f.access, other.access)

(***************************************************************************)
(* FilteredAccessSet<T>: the accesses of a system, one per parameter, and  *)
(* their union.                                                            *)
(***************************************************************************)
FilteredAccessSet_default ==
    [combined_access |-> Access_default, filtered_accesses |-> {}]

combined_access(set) == set.combined_access

get_conflicts_single(set, filtered_access) ==
    IF is_compatible(filtered_access.access, set.combined_access) THEN {}
    ELSE UNION { FilteredAccess_get_conflicts(current, filtered_access) :
                 current \in set.filtered_accesses }

FilteredAccessSet_add(set, filtered_access) ==
    [combined_access |-> extend(set.combined_access, filtered_access.access),
     filtered_accesses |-> set.filtered_accesses \cup {filtered_access}]

add_unfiltered_read(set, index) ==
    FilteredAccessSet_add(set, FilteredAccess_add_read(FilteredAccess_default, index))

add_unfiltered_write(set, index) ==
    FilteredAccessSet_add(set, FilteredAccess_add_write(FilteredAccess_default, index))

(***************************************************************************)
(* SystemMeta: the accumulator of one system.                              *)
(***************************************************************************)
SystemMeta_new(name) ==
    [name |-> name,
     component_access_set |-> FilteredAccessSet_default,
     archetype_component_access |-> Access_default,
     is_send |-> TRUE,
     last_change_tick |-> 0]

set_non_send(meta) == [meta EXCEPT !.is_send = FALSE]

(***************************************************************************)
(* World: resource slots, archetypes.                                      *)
(***************************************************************************)
\* the archetype that holds the resources (ArchetypeId::RESOURCE)
ResourceArchetype == 0
ArchetypeIds == {1, 2}

\* the components stored in an archetype
ArchetypeComponents(a) == IF a = 1 THEN {CompC, CompM} ELSE {CompC}

\* ArchetypeComponentId of a resource: its slot in the resource archetype
get_resource_archetype_component_id(component_id) ==
    << ResourceArchetype, component_id >>

get_non_send_archetype_component_id(component_id) ==
    << ResourceArchetype, component_id >>

(***************************************************************************)
(* The parameters a system can declare.  A parameter is a record           *)
(* [kind, id, members]: id is the ComponentId of the resource type T of    *)
(* Res<T>, ResMut<T>, NonSend<T>, NonSendMut<T> and their Option variants, *)
(* or the index of the query type of a Query; members are the parameters   *)
(* of a ParamSet.                                                          *)
(***************************************************************************)
Param(kind, id) == [kind |-> kind, id |-> id, members |-> << >>]

ParamSetOf(members) == [kind |-> "ParamSet", id |-> 0, members |-> members]

\* a tuple of parameters, itself a parameter
TupleOf(members) == [kind |-> "Tuple", id |-> 0, members |-> members]

\* StaticSystemParam<P>
StaticOf(p) == [kind |-> "Static", id |-> 0, members |-> << p >>]

\* Query<Q, F>: the components Q reads and writes, the With and Without of F
QueryTypes ==
    << [reads |-> {CompC}, writes |-> {}, with |-> {}, without |-> {}],
       [reads |-> {}, writes |-> {CompC}, with |-> {}, without |-> {}],
       [reads |-> {}, writes |-> {CompC}, with |-> {CompM}, without |-> {}],
       [reads |-> {}, writes |-> {CompC}, with |-> {}, without |-> {CompM}] >>

ResourceKinds ==
    {"Res", "ResMut", "OptionRes", "OptionResMut",
     "NonSend", "NonSendMut", "OptionNonSend", "OptionNonSendMut"}

ResourceParams == { Param(k, id) : k \in ResourceKinds, id \in ResourceIds }

QueryParams == { Param("Query", i) : i \in DOMAIN QueryTypes }

NoAccessParams == { Param("Commands", 0), Param("Local", 0) }

\* the parameters that are not a ParamSet
BareParams ==
    ResourceParams \cup QueryParams \cup {Param("World", 0)} \cup NoAccessParams

(***************************************************************************)
(* State of a parameter (SystemParam::State), and the outcome of           *)
(* init_state: the State, the SystemMeta as init_state left it, and        *)
(* whether init_state panicked.                                            *)
(***************************************************************************)
\* id: the ComponentId of a resource handle, the query type of a Query;
\* matched: the archetypes of a QueryState; members: the States of the members
\* of a tuple or ParamSet; value: the T of a Local<T>; queue: the
\* CommandQueue of Commands
ParamState(id, matched, members) ==
    [id |-> id, matched |-> matched, members |-> members, value |-> 0,
     queue |-> << >>]

UnitState == ParamState(0, {}, << >>)

\* what a panic message of init_state says: the error code, the system and
\* the parameter type it names, the type argument it prints and how many
\* times, the previous access it names, the conflicting ComponentIds it
\* lists, and what it suggests
Diagnostic(code, system, param, type, times, previous, slots, suggestions) ==
    [code |-> code, system |-> system, param |-> param, type |-> type,
     times |-> times, previous |-> previous, slots |-> slots,
     suggestions |-> suggestions]

NoDiagnostic == Diagnostic("", "", "", 0, 0, "", {}, {})

\* "error[B0001]: Query<{}, {}> in system {} accesses component(s) {} in a way
\* that conflicts with a previous system parameter. Consider using
\* `Without<T>` to create disjoint Queries or merging conflicting Queries
\* into a `ParamSet`."
B0001(query_type, system_name, conflicts) ==
    Diagnostic("B0001", system_name, "Query", query_type, 1,
               "system parameter", conflicts, {"Without", "ParamSet"})

\* "error[B0002]: ResMut<{}> in system {} conflicts with a previous
\* ResMut<{0}> access. Consider removing the duplicate access."
B0002(param, type, system_name, previous) ==
    Diagnostic("B0002", system_name, param, type, 2, previous, {type},
               {"removing the duplicate access"})

\* "&World conflicts with a previous mutable system parameter. Allowing this
\* would break Rust's mutability rules"
World_conflict ==
    Diagnostic("", "", "&World", 0, 0, "mutable system parameter", {}, {})

Registered(meta, state) ==
    [panicked |-> FALSE, error |-> NoDiagnostic, meta |-> meta, state |-> state]

Panicked(meta, error) ==
    [panicked |-> TRUE, error |-> error, meta |-> meta, state |-> UnitState]

(***************************************************************************)
(* QueryState::new: the component access of the query type and the         *)
(* archetype component access of the archetypes it matches.                *)
(***************************************************************************)
QueryComponentAccess(q) ==
    [access |-> [reads_all |-> FALSE,
                 reads_and_writes |-> q.reads \cup q.writes,
                 writes |-> q.writes],
     with |-> q.reads \cup q.writes \cup q.with,
     without |-> q.without]

QueryMatches(q, a) ==
    /\ (q.reads \cup q.writes \cup q.with) \subseteq ArchetypeComponents(a)
    /\ q.without \cap ArchetypeComponents(a) = {}

QueryArchetypeAccess(q, matched) ==
    [reads_all |-> FALSE,
     reads_and_writes |-> { << a, c >> : a \in matched, c \in q.reads \cup q.writes },
     writes |-> { << a, c >> : a \in matched, c \in q.writes }]

QueryState_new(q, arch) ==
    LET matched == { a \in arch : QueryMatches(q, a) }
    IN  [component_access |-> QueryComponentAccess(q),
         archetype_component_access |-> QueryArchetypeAccess(q, matched),
         matched |-> matched]

(***************************************************************************)
(* init_state of each parameter kind.                                      *)
(***************************************************************************)
\* assert_component_access_compatibility: the conflicting components
assert_component_access_compatibility(system_access, current) ==
    get_conflicts_single(system_access, current)

\* Query::init_state that overwrites archetype_component_access
Query_init_state_overwrite(p, arch, meta) ==
    LET state == QueryState_new(QueryTypes[p.id], arch)
        conflicts == assert_component_access_compatibility(
                         meta.component_access_set, state.component_access)
    IN  IF conflicts # {} THEN Panicked(meta, B0001(p.id, meta.name, conflicts))
        ELSE Registered(
                 [meta EXCEPT
                    !.component_access_set =
                        FilteredAccessSet_add(@, state.component_access),
                    !.archetype_component_access =
                        state.archetype_component_access],
                 ParamState(p.id, state.matched, << >>))

Query_init_state(p, arch, meta) ==
    LET state == QueryState_new(QueryTypes[p.id], arch)
        conflicts == assert_component_access_compatibility(
                         meta.component_access_set, state.component_access)
    IN  IF conflicts # {} THEN Panicked(meta, B0001(p.id, meta.name, conflicts))
        ELSE Registered(
                 [meta EXCEPT
                    !.component_access_set =
                        FilteredAccessSet_add(@, state.component_access),
                    !.archetype_component_access =
                        extend(@, state.archetype_component_access)],
                 ParamState(p.id, state.matched, << >>))

\* Res::init_state that registers the read in component_access_set only
Res_init_state_component_only(p, arch, meta) ==
    LET component_id == p.id
        combined == combined_access(meta.component_access_set)
    IN  IF has_write(combined, component_id)
        THEN Panicked(meta, B0002("Res", component_id, meta.name,
                             "ResMut"))
        ELSE Registered(
                 [meta EXCEPT
                    !.component_access_set = add_unfiltered_read(@, component_id)],
                 ParamState(component_id, {}, << >>))

\* Res::init_state without the assertion on a previous write
Res_init_state_unchecked(p, arch, meta) ==
    LET component_id == p.id
    IN  Registered(
            [meta EXCEPT
               !.component_access_set = add_unfiltered_read(@, component_id),
               !.archetype_component_access =
                   add_read(@, get_resource_archetype_component_id(component_id))],
            ParamState(component_id, {}, << >>))

Res_init_state(p, arch, meta) ==
    LET component_id == p.id
        combined == combined_access(meta.component_access_set)
    IN  IF has_write(combined, component_id)
        THEN Panicked(meta, B0002("Res", component_id, meta.name,
                             "ResMut"))
        ELSE Registered(
                 [meta EXCEPT
                    !.component_access_set = add_unfiltered_read(@, component_id),
                    !.archetype_component_access =
                        add_read(@, get_resource_archetype_component_id(component_id))],
                 ParamState(component_id, {}, << >>))

\* ResMut::init_state whose two panic messages are exchanged
ResMut_init_state_swapped_messages(p, arch, meta) ==
    LET component_id == p.id
        combined == combined_access(meta.component_access_set)
    IN  IF has_write(combined, component_id)
        THEN Panicked(meta, B0002("ResMut", component_id, meta.name, "Res"))
        ELSE IF has_read(combined, component_id)
        THEN Panicked(meta, B0002("ResMut", component_id, meta.name, "ResMut"))
        ELSE Registered(
                 [meta EXCEPT
                    !.component_access_set = add_unfiltered_write(@, component_id),
                    !.archetype_component_access =
                        add_write(@, get_resource_archetype_component_id(component_id))],
                 ParamState(component_id, {}, << >>))

\* ResMut::init_state that checks a previous write only
ResMut_init_state_write_only(p, arch, meta) ==
    LET component_id == p.id
        combined == combined_access(meta.component_access_set)
    IN  IF has_write(combined, component_id)
        THEN Panicked(meta, B0002("ResMut", component_id, meta.name,
                             "ResMut"))
        ELSE Registered(
                 [meta EXCEPT
                    !.component_access_set = add_unfiltered_write(@, component_id),
                    !.archetype_component_access =
                        add_write(@, get_resource_archetype_component_id(component_id))],
                 ParamState(component_id, {}, << >>))

\* ResMut::init_state that records a read in archetype_component_access
ResMut_init_state_coarse_read(p, arch, meta) ==
    LET component_id == p.id
        combined == combined_access(meta.component_access_set)
    IN  IF has_write(combined, component_id)
        THEN Panicked(meta, B0002("ResMut", component_id, meta.name,
                             "ResMut"))
        ELSE IF has_read(combined, component_id)
        THEN Panicked(meta, B0002("ResMut", component_id, meta.name,
                             "Res"))
        ELSE Registered(
                 [meta EXCEPT
                    !.component_access_set = add_unfiltered_write(@, component_id),
                    !.archetype_component_access =
                        add_read(@, get_resource_archetype_component_id(component_id))],
                 ParamState(component_id, {}, << >>))

\* ResMut::init_state without any check
ResMut_init_state_unchecked(p, arch, meta) ==
    LET component_id == p.id
    IN  Registered(
            [meta EXCEPT
               !.component_access_set = add_unfiltered_write(@, component_id),
               !.archetype_component_access =
                   add_write(@, get_resource_archetype_component_id(component_id))],
            ParamState(component_id, {}, << >>))

ResMut_init_state(p, arch, meta) ==
    LET component_id == p.id
        combined == combined_access(meta.component_access_set)
    IN  IF has_write(combined, component_id)
        THEN Panicked(meta, B0002("ResMut", component_id, meta.name,
                             "ResMut"))
        ELSE IF has_read(combined, component_id)
        THEN Panicked(meta, B0002("ResMut", component_id, meta.name,
                             "Res"))
        ELSE Registered(
                 [meta EXCEPT
                    !.component_access_set = add_unfiltered_write(@, component_id),
                    !.archetype_component_access =
                        add_write(@, get_resource_archetype_component_id(component_id))],
                 ParamState(component_id, {}, << >>))

\* Option<Res>::init_state that skips the check of Res::init_state
OptionRes_init_state_unchecked(p, arch, meta) ==
    Res_init_state_unchecked(p, arch, meta)

OptionRes_init_state(p, arch, meta) == Res_init_state(p, arch, meta)

OptionResMut_init_state(p, arch, meta) == ResMut_init_state(p, arch, meta)

Commands_init_state(p, arch, meta) == Registered(meta, UnitState)

\* <&World>::init_state that panics on any previous access, read or write
World_init_state_any_access(p, arch, meta) ==
    LET access == read_all(Access_default)
        filtered_access == FilteredAccess_read_all(FilteredAccess_default)
    IN  IF meta.archetype_component_access # Access_default
        THEN Panicked(meta, World_conflict)
        ELSE LET meta1 == [meta EXCEPT
                             !.archetype_component_access = extend(@, access)]
             IN  IF meta1.component_access_set # FilteredAccessSet_default
                 THEN Panicked(meta1, World_conflict)
                 ELSE Registered(
                          [meta1 EXCEPT
                             !.component_access_set =
                                 FilteredAccessSet_add(@, filtered_access)],
                          UnitState)

\* <&World>::init_state that checks archetype_component_access only
World_init_state_coarse_only(p, arch, meta) ==
    LET access == read_all(Access_default)
        filtered_access == FilteredAccess_read_all(FilteredAccess_default)
    IN  IF ~ is_compatible(meta.archetype_component_access, access)
        THEN Panicked(meta, World_conflict)
        ELSE Registered(
                 [meta EXCEPT
                    !.archetype_component_access = extend(@, access),
                    !.component_access_set =
                        FilteredAccessSet_add(@, filtered_access)],
                 UnitState)

World_init_state(p, arch, meta) ==
    LET access == read_all(Access_default)
        filtered_access == FilteredAccess_read_all(FilteredAccess_default)
    IN  IF ~ is_compatible(meta.archetype_component_access, access)
        THEN Panicked(meta, World_conflict)
        ELSE LET meta1 == [meta EXCEPT
                             !.archetype_component_access = extend(@, access)]
             IN  IF get_conflicts_single(meta1.component_access_set,
                                         filtered_access) # {}
                 THEN Panicked(meta1, World_conflict)
                 ELSE Registered(
                          [meta1 EXCEPT
                             !.component_access_set =
                                 FilteredAccessSet_add(@, filtered_access)],
                          UnitState)

\* T::from_world(world) of the T of a Local<T>: a value derived from the
\* World, here from its archetypes
from_world(arch) == Cardinality(arch)

\* SyncCell::new(T::from_world(world))
Local_init_state(p, arch, meta) ==
    Registered(meta, [UnitState EXCEPT !.value = from_world(arch)])

\* NonSend::init_state without the assertion on a previous write
NonSend_init_state_unchecked(p, arch, meta) ==
    LET meta1 == set_non_send(meta)
        component_id == p.id
    IN  Registered(
            [meta1 EXCEPT
               !.component_access_set = add_unfiltered_read(@, component_id),
               !.archetype_component_access =
                   add_read(@, get_non_send_archetype_component_id(component_id))],
            ParamState(component_id, {}, << >>))

NonSend_init_state(p, arch, meta) ==
    LET meta1 == set_non_send(meta)
        component_id == p.id
        combined == combined_access(meta1.component_access_set)
    IN  IF has_write(combined, component_id)
        THEN Panicked(meta1, B0002("NonSend", component_id, meta1.name,
                             "mutable resource access"))
        ELSE Registered(
                 [meta1 EXCEPT
                    !.component_access_set = add_unfiltered_read(@, component_id),
                    !.archetype_component_access =
                        add_read(@, get_non_send_archetype_component_id(component_id))],
                 ParamState(component_id, {}, << >>))

OptionNonSend_init_state(p, arch, meta) == NonSend_init_state(p, arch, meta)

\* NonSendMut::init_state that leaves the system Send
NonSendMut_init_state_send(p, arch, meta) ==
    LET component_id == p.id
        combined == combined_access(meta.component_access_set)
    IN  IF has_write(combined, component_id)
        THEN Panicked(meta, B0002("NonSendMut", component_id, meta.name,
                             "mutable resource access"))
        ELSE IF has_read(combined, component_id)
        THEN Panicked(meta, B0002("NonSendMut", component_id, meta.name,
                             "immutable resource access"))
        ELSE Registered(
                 [meta EXCEPT
                    !.component_access_set = add_unfiltered_write(@, component_id),
                    !.archetype_component_access =
                        add_write(@, get_non_send_archetype_component_id(component_id))],
                 ParamState(component_id, {}, << >>))

\* NonSendMut::init_state that checks a previous write only
NonSendMut_init_state_write_only(p, arch, meta) ==
    LET meta1 == set_non_send(meta)
        component_id == p.id
        combined == combined_access(meta1.component_access_set)
    IN  IF has_write(combined, component_id)
        THEN Panicked(meta1, B0002("NonSendMut", component_id, meta1.name,
                             "mutable resource access"))
        ELSE Registered(
                 [meta1 EXCEPT
                    !.component_access_set = add_unfiltered_write(@, component_id),
                    !.archetype_component_access =
                        add_write(@, get_non_send_archetype_component_id(component_id))],
                 ParamState(component_id, {}, << >>))

\* NonSendMut::init_state that registers a read
NonSendMut_init_state_as_read(p, arch, meta) ==
    LET meta1 == set_non_send(meta)
        component_id == p.id
        combined == combined_access(meta1.component_access_set)
    IN  IF has_write(combined, component_id)
        THEN Panicked(meta1, B0002("NonSendMut", component_id, meta1.name,
                             "mutable resource access"))
        ELSE IF has_read(combined, component_id)
        THEN Panicked(meta1, B0002("NonSendMut", component_id, meta1.name,
                             "immutable resource access"))
        ELSE Registered(
                 [meta1 EXCEPT
                    !.component_access_set = add_unfiltered_read(@, component_id),
                    !.archetype_component_access =
                        add_read(@, get_non_send_archetype_component_id(component_id))],
                 ParamState(component_id, {}, << >>))

\* NonSendMut::init_state that records the write before it checks
NonSendMut_init_state_write_first(p, arch, meta) ==
    LET meta1 == set_non_send(meta)
        component_id == p.id
        combined == combined_access(meta1.component_access_set)
        meta2 == [meta1 EXCEPT
                    !.component_access_set = add_unfiltered_write(@, component_id)]
    IN  IF has_write(combined, component_id)
        THEN Panicked(meta2, B0002("NonSendMut", component_id, meta1.name,
                             "mutable resource access"))
        ELSE IF has_read(combined, component_id)
        THEN Panicked(meta2, B0002("NonSendMut", component_id, meta1.name,
                             "immutable resource access"))
        ELSE Registered(
                 [meta2 EXCEPT
                    !.archetype_component_access =
                        add_write(@, get_non_send_archetype_component_id(component_id))],
                 ParamState(component_id, {}, << >>))

NonSendMut_init_state(p, arch, meta) ==
    LET meta1 == set_non_send(meta)
        component_id == p.id
        combined == combined_access(meta1.component_access_set)
    IN  IF has_write(combined, component_id)
        THEN Panicked(meta1, B0002("NonSendMut", component_id, meta1.name,
                             "mutable resource access"))
        ELSE IF has_read(combined, component_id)
        THEN Panicked(meta1, B0002("NonSendMut", component_id, meta1.name,
                             "immutable resource access"))
        ELSE Registered(
                 [meta1 EXCEPT
                    !.component_access_set = add_unfiltered_write(@, component_id),
                    !.archetype_component_access =
                        add_write(@, get_non_send_archetype_component_id(component_id))],
                 ParamState(component_id, {}, << >>))

OptionNonSendMut_init_state(p, arch, meta) == NonSendMut_init_state(p, arch, meta)

\* init_state of a parameter that is not a ParamSet
\* world.init_component::<T>(): the State is the ComponentId of T, and no
\* access is registered
\* a RemovedComponents::init_state that registers a read of the component
RemovedComponents_init_state_reads(p, arch, meta) ==
    Registered([meta EXCEPT
                   !.component_access_set = add_unfiltered_read(@, p.id)],
               ParamState(p.id, {}, << >>))

RemovedComponents_init_state(p, arch, meta) ==
    Registered(meta, ParamState(p.id, {}, << >>))

\* init_state of &Archetypes, &Components, &Entities and &Bundles does
\* nothing; the State is ()
WorldMetadata_init_state(p, arch, meta) == Registered(meta, UnitState)

\* SystemName::init_state: system_meta.name.clone()
SystemName_init_state(p, arch, meta) ==
    Registered(meta, [UnitState EXCEPT !.members = << meta.name >>])

\* SystemChangeTick::init_state does nothing
SystemChangeTick_init_state(p, arch, meta) == Registered(meta, UnitState)

Bare_init_state(p, arch, meta) ==
    CASE p.kind = "Query" -> Query_init_state(p, arch, meta)
      [] p.kind = "Res" -> Res_init_state(p, arch, meta)
      [] p.kind = "OptionRes" -> OptionRes_init_state(p, arch, meta)
      [] p.kind = "ResMut" -> ResMut_init_state(p, arch, meta)
      [] p.kind = "OptionResMut" -> OptionResMut_init_state(p, arch, meta)
      [] p.kind = "Commands" -> Commands_init_state(p, arch, meta)
      [] p.kind = "World" -> World_init_state(p, arch, meta)
      [] p.kind = "Local" -> Local_init_state(p, arch, meta)
      [] p.kind = "NonSend" -> NonSend_init_state(p, arch, meta)
      [] p.kind = "OptionNonSend" -> OptionNonSend_init_state(p, arch, meta)
      [] p.kind = "NonSendMut" -> NonSendMut_init_state(p, arch, meta)
      [] p.kind = "OptionNonSendMut" -> OptionNonSendMut_init_state(p, arch, meta)
      [] p.kind = "RemovedComponents" -> RemovedComponents_init_state(p, arch, meta)
      [] p.kind = "SystemChangeTick" -> SystemChangeTick_init_state(p, arch, meta)
      [] p.kind \in {"Archetypes", "Components", "Entities", "Bundles"} ->
            WorldMetadata_init_state(p, arch, meta)
      [] p.kind = "SystemName" -> SystemName_init_state(p, arch, meta)

(***************************************************************************)
(* ParamSet (design sections 4.5, 8 and 9).  Every member is registered    *)
(* once against a copy of the accumulator of the system, which detects a   *)
(* conflict with the parameters outside the set, and once against a        *)
(* private, empty accumulator, which yields the footprint of the member:   *)
(* members never conflict with each other.  The footprints of all the      *)
(* members are then recorded in the accumulator of the system.             *)
(***************************************************************************)
PrivateMeta(meta) ==
    [meta EXCEPT !.component_access_set = FilteredAccessSet_default,
                 !.archetype_component_access = Access_default]

FilteredAccessSet_extend(set, other) ==
    [combined_access |-> extend(set.combined_access, other.combined_access),
     filtered_accesses |-> set.filtered_accesses \cup other.filtered_accesses]

\* the accumulator with the footprint that a member registered privately
FoldMember(acc, private) ==
    [acc EXCEPT
       !.component_access_set =
           FilteredAccessSet_extend(@, private.component_access_set),
       !.archetype_component_access =
           extend(@, private.archetype_component_access),
       !.is_send = @ /\ private.is_send]

RECURSIVE ParamSet_fold_members(_, _, _, _, _, _)
ParamSet_fold_members(members, i, arch, meta, acc, states) ==
    IF i > Len(members) THEN Registered(acc, ParamState(0, {}, states))
    ELSE LET checked == Bare_init_state(members[i], arch, meta)
             private == Bare_init_state(members[i], arch, PrivateMeta(meta))
         IN  IF checked.panicked THEN Panicked(meta, checked.error)
             ELSE ParamSet_fold_members(members, i + 1, arch, meta,
                                        FoldMember(acc, private.meta),
                                        Append(states, checked.state))

ParamSet_init_state(p, arch, meta) ==
    ParamSet_fold_members(p.members, 1, arch, meta, meta, << >>)

\* SystemParam::init_state; a tuple calls init_state of each member, left to
\* right, on the same SystemMeta; StaticSystemParam<P> delegates to P
RECURSIVE init_state(_, _, _)
RECURSIVE tuple_init_state(_, _, _, _, _)
init_state(p, arch, meta) ==
    IF p.kind = "ParamSet" THEN ParamSet_init_state(p, arch, meta)
    ELSE IF p.kind = "Tuple" THEN tuple_init_state(p.members, 1, arch, meta, << >>)
    ELSE IF p.kind = "Static" THEN init_state(p.members[1], arch, meta)
    ELSE Bare_init_state(p, arch, meta)

(***************************************************************************)
(* Building a system: the tuple of its parameters calls init_state of      *)
(* each member, left to right, on the same SystemMeta.                     *)
(***************************************************************************)
\* the members a ParamSet is built from in this model
ParamSets ==
    { ParamSetOf(<< Param("ResMut", 1), Param("ResMut", 1) >>),
      ParamSetOf(<< Param("Res", 1), Param("ResMut", 2) >>),
      ParamSetOf(<< Param("ResMut", 2), Param("Res", 1) >>),
      ParamSetOf(<< Param("World", 0), Param("ResMut", 1) >>),
      ParamSetOf(<< Param("NonSendMut", 2), Param("World", 0) >>),
      ParamSetOf(<< Param("Query", 3), Param("Query", 2), Param("Query", 1) >>) }

\* the outcome of the tuple's init_state on the parameters ps[i..]
tuple_init_state(ps, i, arch, meta, states) ==
    IF i > Len(ps) THEN Registered(meta, ParamState(0, {}, states))
    ELSE LET r == init_state(ps[i], arch, meta)
         IN  IF r.panicked THEN r
             ELSE tuple_init_state(ps, i + 1, arch, r.meta, Append(states, r.state))

Build(ps, arch) == tuple_init_state(ps, 1, arch, SystemMeta_new("system"), << >>)

\* a tuple that packs the State of each member in front of the earlier ones
Register_packs_in_front(s, p) ==
    /\ status[s] = "building"
    /\ Len(params[s]) < MaxParams
    /\ LET r == init_state(p, archetypes, system_meta[s])
       IN  /\ params' = [params EXCEPT ![s] = Append(@, p)]
           /\ system_meta' = [system_meta EXCEPT ![s] = r.meta]
           /\ param_state' = [param_state EXCEPT ![s] =
                                 IF r.panicked THEN @ ELSE << r.state >> \o @]
           /\ status' = [status EXCEPT ![s] =
                            IF r.panicked THEN "panicked" ELSE "building"]
           /\ diagnostic' = [diagnostic EXCEPT ![s] = r.error]
    /\ UNCHANGED << worldVars, gizmos, runVars >>

\* one member of the tuple registers: p is the next parameter of system s
Register(s, p) ==
    /\ status[s] = "building"
    /\ Len(params[s]) < MaxParams
    /\ LET r == init_state(p, archetypes, system_meta[s])
       IN  /\ params' = [params EXCEPT ![s] = Append(@, p)]
           /\ system_meta' = [system_meta EXCEPT ![s] = r.meta]
           /\ param_state' = [param_state EXCEPT ![s] =
                                 IF r.panicked THEN @ ELSE Append(@, r.state)]
           /\ status' = [status EXCEPT ![s] =
                            IF r.panicked THEN "panicked" ELSE "building"]
           /\ diagnostic' = [diagnostic EXCEPT ![s] = r.error]
    /\ UNCHANGED << worldVars, gizmos, runVars >>

RegisterRes(s) == \E id \in ResourceIds : Register(s, Param("Res", id))
RegisterResMut(s) == \E id \in ResourceIds : Register(s, Param("ResMut", id))
RegisterOptionRes(s) == \E id \in ResourceIds : Register(s, Param("OptionRes", id))
RegisterOptionResMut(s) ==
    \E id \in ResourceIds : Register(s, Param("OptionResMut", id))
RegisterNonSend(s) == \E id \in ResourceIds : Register(s, Param("NonSend", id))
RegisterNonSendMut(s) == \E id \in ResourceIds : Register(s, Param("NonSendMut", id))
RegisterOptionNonSend(s) ==
    \E id \in ResourceIds : Register(s, Param("OptionNonSend", id))
RegisterOptionNonSendMut(s) ==
    \E id \in ResourceIds : Register(s, Param("OptionNonSendMut", id))
RegisterQuery(s) == \E p \in QueryParams : Register(s, p)
RegisterWorld(s) == Register(s, Param("World", 0))
RegisterCommands(s) == Register(s, Param("Commands", 0))
RegisterLocal(s) == Register(s, Param("Local", 0))
RegisterParamSet(s) == \E p \in ParamSets : Register(s, p)

\* nested tuples and StaticSystemParam wrappers
NestedParams ==
    { TupleOf(<< >>),
      TupleOf(<< Param("Res", 1), Param("NonSend", 2) >>),
      TupleOf(<< Param("Res", 1), Param("ResMut", 2) >>),
      TupleOf(<< Param("Local", 0),
                 TupleOf(<< StaticOf(Param("OptionNonSendMut", 1)) >>) >>),
      TupleOf(<< TupleOf(<< >>), TupleOf(<< Param("Res", 2) >>) >>),
      StaticOf(Param("NonSendMut", 1)),
      StaticOf(Param("Res", 2)),
      StaticOf(TupleOf(<< Param("Commands", 0),
                          TupleOf(<< Param("OptionNonSend", 2) >>) >>)) }

RegisterTuple(s) ==
    \E p \in { x \in NestedParams : x.kind = "Tuple" } : Register(s, p)
RegisterStatic(s) ==
    \E p \in { x \in NestedParams : x.kind = "Static" } : Register(s, p)

\* the tuple's init_state returns: the system is built
FinishBuild(s) ==
    /\ status[s] = "building"
    /\ status' = [status EXCEPT ![s] = "built"]
    /\ UNCHANGED << params, system_meta, param_state, diagnostic, worldVars, gizmos,
                    runVars >>

(***************************************************************************)
(* The build of one system.                                                *)
(***************************************************************************)
Slot ==
    [present |-> FALSE, added |-> 0, changed |-> 0]

InitWorld ==
    /\ resources = [id \in ResourceIds |-> Slot]
    /\ archetypes = {1}
    /\ removed = [c \in ComponentIds |-> << >>]
    /\ world_tick = 1

InitIdle ==
    /\ phase = [s \in Systems |-> "idle"]
    /\ fetched = [s \in Systems |-> 0]
    /\ items = [s \in Systems |-> << >>]
    /\ handles = [s \in Systems |-> {}]
    /\ run_tick = [s \in Systems |-> 0]

\* no arc builder borrows the GizmoBuffer
NoBuilder ==
    [kind |-> "none"]

\* nothing was handed to linestrip / linestrip_2d yet
NoStrip ==
    [kind |-> "none"]

\* the GizmoBuffer the arc methods draw into: enabled, nothing borrowed,
\* nothing drawn
GizmoBuffer(enabled) ==
    [enabled |-> enabled, builder |-> NoBuilder, strips |-> 0, last |-> NoStrip]

InitGizmos ==
    gizmos = GizmoBuffer(TRUE)

Init ==
    /\ InitWorld
    /\ InitIdle
    /\ InitGizmos
    /\ params = [s \in Systems |-> << >>]
    /\ system_meta = [s \in Systems |-> SystemMeta_new("system")]
    /\ param_state = [s \in Systems |-> << >>]
    /\ status = [s \in Systems |-> "building"]
    /\ diagnostic = [s \in Systems |-> NoDiagnostic]

Next ==
    \/ RegisterRes(Built)
    \/ RegisterResMut(Built)
    \/ RegisterOptionRes(Built)
    \/ RegisterOptionResMut(Built)
    \/ RegisterNonSend(Built)
    \/ RegisterNonSendMut(Built)
    \/ RegisterOptionNonSend(Built)
    \/ RegisterOptionNonSendMut(Built)
    \/ RegisterQuery(Built)
    \/ RegisterWorld(Built)
    \/ RegisterCommands(Built)
    \/ RegisterLocal(Built)
    \/ RegisterParamSet(Built)
    \/ FinishBuild(Built)

Spec == Init /\ [][Next]_vars

(***************************************************************************)
(* The build of one system from resource handles, access-free parameters,  *)
(* nested tuples and StaticSystemParam wrappers.                           *)
(***************************************************************************)
NextNested ==
    \/ RegisterRes(Built)
    \/ RegisterResMut(Built)
    \/ RegisterNonSend(Built)
    \/ RegisterNonSendMut(Built)
    \/ RegisterOptionNonSend(Built)
    \/ RegisterOptionNonSendMut(Built)
    \/ RegisterCommands(Built)
    \/ RegisterLocal(Built)
    \/ RegisterTuple(Built)
    \/ RegisterStatic(Built)
    \/ FinishBuild(Built)

SpecNested == Init /\ [][NextNested]_vars

(***************************************************************************)
(* get_param of each parameter kind.  The outcome is the item, the borrows *)
(* of the World that the item holds, and whether get_param panicked.  A    *)
(* borrow names the storage locations and the ComponentIds it reaches,     *)
(* whether it reaches the whole World, and whether it can mutate.          *)
(***************************************************************************)
\* entities: what the last iter() of a RemovedComponents item yielded
Item(kind, some, id, mutable, meta, change_tick, ticks) ==
    [kind |-> kind, some |-> some, id |-> id, mutable |-> mutable,
     last_change_tick |-> meta.last_change_tick, change_tick |-> change_tick,
     added |-> ticks.added, changed |-> ticks.changed, entities |-> << >>]

NoTicks == [present |-> FALSE, added |-> 0, changed |-> 0]

Borrow(slots, components, all, mutable) ==
    [slots |-> slots, components |-> components, all |-> all, mutable |-> mutable]

ResourceBorrow(component_id, mutable) ==
    Borrow({ << ResourceArchetype, component_id >> }, {component_id}, FALSE, mutable)

Fetched(item, borrows) == [panicked |-> FALSE, item |-> item, borrows |-> borrows]

FetchPanicked ==
    [panicked |-> TRUE,
     item |-> Item("None", FALSE, 0, FALSE, SystemMeta_new("system"), 0, NoTicks),
     borrows |-> {}]

\* world.get_resource_with_ticks(component_id): the slot, if it holds a value
get_resource_with_ticks(res, component_id) == res[component_id]

get_resource_unchecked_mut_with_id(res, component_id) == res[component_id]

get_non_send_with_ticks(res, component_id) == res[component_id]

Query_get_param(state, meta, res, change_tick) ==
    LET q == QueryTypes[state.id]
        slotsOf(cs) == { << a, c >> : a \in state.matched, c \in cs }
    IN  Fetched(Item("Query", TRUE, state.id, q.writes # {}, meta, change_tick, NoTicks),
                (IF q.reads = {} THEN {}
                 ELSE { Borrow(slotsOf(q.reads), q.reads, FALSE, FALSE) })
                \cup (IF q.writes = {} THEN {}
                      ELSE { Borrow(slotsOf(q.writes), q.writes, FALSE, TRUE) }))

\* Res::get_param that borrows a slot whether or not it holds a value
Res_get_param_unchecked(state, meta, res, change_tick) ==
    LET slot == get_resource_with_ticks(res, state.id)
    IN  Fetched(Item("Res", TRUE, state.id, FALSE, meta, change_tick, slot),
                { ResourceBorrow(state.id, FALSE) })

Res_get_param(state, meta, res, change_tick) ==
    LET slot == get_resource_with_ticks(res, state.id)
    IN  IF ~ slot.present THEN FetchPanicked
        ELSE Fetched(Item("Res", TRUE, state.id, FALSE, meta, change_tick, slot),
                     { ResourceBorrow(state.id, FALSE) })

OptionRes_get_param(state, meta, res, change_tick) ==
    LET slot == get_resource_with_ticks(res, state.id)
    IN  IF ~ slot.present
        THEN Fetched(Item("Res", FALSE, state.id, FALSE, meta, change_tick, NoTicks), {})
        ELSE Fetched(Item("Res", TRUE, state.id, FALSE, meta, change_tick, slot),
                     { ResourceBorrow(state.id, FALSE) })

ResMut_get_param(state, meta, res, change_tick) ==
    LET value == get_resource_unchecked_mut_with_id(res, state.id)
    IN  IF ~ value.present THEN FetchPanicked
        ELSE Fetched(Item("ResMut", TRUE, state.id, TRUE, meta, change_tick, value),
                     { ResourceBorrow(state.id, TRUE) })

OptionResMut_get_param(state, meta, res, change_tick) ==
    LET value == get_resource_unchecked_mut_with_id(res, state.id)
    IN  IF ~ value.present
        THEN Fetched(Item("ResMut", FALSE, state.id, TRUE, meta, change_tick, NoTicks), {})
        ELSE Fetched(Item("ResMut", TRUE, state.id, TRUE, meta, change_tick, value),
                     { ResourceBorrow(state.id, TRUE) })

Commands_get_param(state, meta, res, change_tick) ==
    Fetched(Item("Commands", TRUE, 0, FALSE, meta, change_tick, NoTicks), {})

World_get_param(state, meta, res, change_tick) ==
    Fetched(Item("World", TRUE, 0, FALSE, meta, change_tick, NoTicks),
            { Borrow({}, {}, TRUE, FALSE) })

\* Local::get_param that hands out a fresh default value
Local_get_param_fresh(state, meta, res, change_tick) ==
    Fetched(Item("Local", TRUE, 0, FALSE, meta, change_tick, NoTicks), {})

\* Local(state.get()): the item refers to the value kept in the State; its
\* id is the value found there
Local_get_param(state, meta, res, change_tick) ==
    Fetched(Item("Local", TRUE, state.value, FALSE, meta, change_tick, NoTicks), {})

NonSend_get_param(state, meta, res, change_tick) ==
    LET slot == get_non_send_with_ticks(res, state.id)
    IN  IF ~ slot.present THEN FetchPanicked
        ELSE Fetched(Item("NonSend", TRUE, state.id, FALSE, meta, change_tick, slot),
                     { ResourceBorrow(state.id, FALSE) })

OptionNonSend_get_param(state, meta, res, change_tick) ==
    LET slot == get_non_send_with_ticks(res, state.id)
    IN  IF ~ slot.present
        THEN Fetched(Item("NonSend", FALSE, state.id, FALSE, meta, change_tick, NoTicks),
                     {})
        ELSE Fetched(Item("NonSend", TRUE, state.id, FALSE, meta, change_tick, slot),
                     { ResourceBorrow(state.id, FALSE) })

\* NonSendMut::get_param that hands the two ticks to Ticks::from_tick_cells
\* in the other order
NonSendMut_get_param_swapped(state, meta, res, change_tick) ==
    LET slot == get_non_send_with_ticks(res, state.id)
    IN  IF ~ slot.present THEN FetchPanicked
        ELSE [ Fetched(Item("NonSendMut", TRUE, state.id, TRUE, meta, change_tick,
                            slot),
                       { ResourceBorrow(state.id, TRUE) })
               EXCEPT !.item.last_change_tick = change_tick,
                      !.item.change_tick = meta.last_change_tick ]

NonSendMut_get_param(state, meta, res, change_tick) ==
    LET slot == get_non_send_with_ticks(res, state.id)
    IN  IF ~ slot.present THEN FetchPanicked
        ELSE Fetched(Item("NonSendMut", TRUE, state.id, TRUE, meta, change_tick, slot),
                     { ResourceBorrow(state.id, TRUE) })

OptionNonSendMut_get_param(state, meta, res, change_tick) ==
    LET slot == get_non_send_with_ticks(res, state.id)
    IN  IF ~ slot.present
        THEN Fetched(Item("NonSendMut", FALSE, state.id, TRUE, meta, change_tick, NoTicks),
                     {})
        ELSE Fetched(Item("NonSendMut", TRUE, state.id, TRUE, meta, change_tick, slot),
                     { ResourceBorrow(state.id, TRUE) })

\* ParamSet::get_param keeps the states, the World, a copy of the SystemMeta
\* and the change tick; it borrows nothing until p0(), p1(), ... is called
ParamSet_get_param(state, meta, res, change_tick) ==
    Fetched(Item("ParamSet", TRUE, 0, FALSE, meta, change_tick, NoTicks), {})

\* get_param of a parameter that is not a ParamSet
\* RemovedComponents { world, component_id, marker }
RemovedComponents_get_param(state, meta, res, change_tick) ==
    Fetched(Item("RemovedComponents", TRUE, state.id, FALSE, meta, change_tick,
                 NoTicks), {})

\* a SystemChangeTick::get_param that swaps the two ticks
SystemChangeTick_get_param_swapped(state, meta, res, change_tick) ==
    [ Fetched(Item("SystemChangeTick", TRUE, 0, FALSE, meta, change_tick,
                   NoTicks), {})
      EXCEPT !.item.last_change_tick = change_tick,
             !.item.change_tick = meta.last_change_tick ]

\* SystemChangeTick { last_change_tick: system_meta.last_change_tick,
\* change_tick }
SystemChangeTick_get_param(state, meta, res, change_tick) ==
    Fetched(Item("SystemChangeTick", TRUE, 0, FALSE, meta, change_tick,
                 NoTicks), {})

Bare_get_param(p, state, meta, res, change_tick) ==
    CASE p.kind = "Query" -> Query_get_param(state, meta, res, change_tick)
      [] p.kind = "Res" -> Res_get_param(state, meta, res, change_tick)
      [] p.kind = "OptionRes" -> OptionRes_get_param(state, meta, res, change_tick)
      [] p.kind = "ResMut" -> ResMut_get_param(state, meta, res, change_tick)
      [] p.kind = "OptionResMut" -> OptionResMut_get_param(state, meta, res, change_tick)
      [] p.kind = "Commands" -> Commands_get_param(state, meta, res, change_tick)
      [] p.kind = "World" -> World_get_param(state, meta, res, change_tick)
      [] p.kind = "Local" -> Local_get_param(state, meta, res, change_tick)
      [] p.kind = "NonSend" -> NonSend_get_param(state, meta, res, change_tick)
      [] p.kind = "OptionNonSend" ->
            OptionNonSend_get_param(state, meta, res, change_tick)
      [] p.kind = "NonSendMut" -> NonSendMut_get_param(state, meta, res, change_tick)
      [] p.kind = "OptionNonSendMut" ->
            OptionNonSendMut_get_param(state, meta, res, change_tick)
      [] p.kind = "RemovedComponents" ->
            RemovedComponents_get_param(state, meta, res, change_tick)
      [] p.kind = "SystemChangeTick" ->
            SystemChangeTick_get_param(state, meta, res, change_tick)

\* the item of a StaticSystemParam<P>: the item of P, wrapped
StaticSystemParam(item) == [kind |-> "Static", inner |-> item]

RECURSIVE get_param(_, _, _, _, _)

\* StaticSystemParam(P::get_param(state, system_meta, world, change_tick))
StaticSystemParam_get_param(p, state, meta, res, change_tick) ==
    LET r == get_param(p.members[1], state, meta, res, change_tick)
    IN  IF r.panicked THEN r
        ELSE Fetched(StaticSystemParam(r.item), r.borrows)

\* SystemParam::get_param
get_param(p, state, meta, res, change_tick) ==
    IF p.kind = "ParamSet" THEN ParamSet_get_param(state, meta, res, change_tick)
    ELSE IF p.kind = "Static"
    THEN StaticSystemParam_get_param(p, state, meta, res, change_tick)
    ELSE Bare_get_param(p, state, meta, res, change_tick)

(***************************************************************************)
(* ReadOnlySystemParam: the parameter kinds that claim the marker.         *)
(***************************************************************************)
ReadOnlyKinds ==
    {"Res", "OptionRes", "Commands", "World", "Local", "NonSend", "NonSendMut",
     "RemovedComponents", "SystemChangeTick"}

Bare_ReadOnlySystemParam(p) ==
    IF p.kind = "Query" THEN QueryTypes[p.id].writes = {}
    ELSE p.kind \in ReadOnlyKinds

\* a tuple, and a ParamSet, claim the marker when all their members do;
\* a StaticSystemParam<P> when P does
RECURSIVE ReadOnlySystemParam(_)
ReadOnlySystemParam(p) ==
    IF p.kind = "ParamSet"
    THEN \A k \in DOMAIN p.members : Bare_ReadOnlySystemParam(p.members[k])
    ELSE IF p.kind = "Static" THEN ReadOnlySystemParam(p.members[1])
    ELSE Bare_ReadOnlySystemParam(p)

tuple_ReadOnlySystemParam(ps) == \A i \in DOMAIN ps : ReadOnlySystemParam(ps[i])

(***************************************************************************)
(* Invocation of a system.  The executor starts a system only while the    *)
(* storage-keyed footprints of the systems it is running are compatible    *)
(* with the footprint of that system (design section 5).  The tuple's      *)
(* get_param then calls get_param of each member, left to right.           *)
(***************************************************************************)
Active(s) == phase[s] \in {"fetching", "running"}

Handle(i, k, b) ==
    [param |-> i, member |-> k, slots |-> b.slots, components |-> b.components,
     all |-> b.all, mutable |-> b.mutable]

BeginRun(s) ==
    /\ status[s] = "built"
    /\ phase[s] = "idle"
    /\ \A t \in Systems \ {s} :
           Active(t) => is_compatible(system_meta[s].archetype_component_access,
                                      system_meta[t].archetype_component_access)
    /\ phase' = [phase EXCEPT ![s] = IF Len(params[s]) = 0 THEN "running"
                                     ELSE "fetching"]
    /\ fetched' = [fetched EXCEPT ![s] = 0]
    /\ items' = [items EXCEPT ![s] = << >>]
    /\ handles' = [handles EXCEPT ![s] = {}]
    /\ run_tick' = [run_tick EXCEPT ![s] = world_tick]
    /\ UNCHANGED << worldVars, gizmos, buildVars >>

\* a get_param that registers the access of the member again
GetParam_registers(s, kind) ==
    /\ phase[s] = "fetching"
    /\ LET i == fetched[s] + 1
           p == params[s][i]
           r == get_param(p, param_state[s][i], system_meta[s], resources,
                          run_tick[s])
       IN  /\ p.kind = kind
           /\ IF r.panicked
              THEN /\ phase' = [phase EXCEPT ![s] = "panicked"]
                   /\ handles' = [handles EXCEPT ![s] = {}]
                   /\ UNCHANGED << fetched, items >>
              ELSE /\ phase' = [phase EXCEPT ![s] =
                                   IF i = Len(params[s]) THEN "running"
                                   ELSE "fetching"]
                   /\ fetched' = [fetched EXCEPT ![s] = i]
                   /\ items' = [items EXCEPT ![s] = Append(@, r.item)]
                   /\ handles' = [handles EXCEPT ![s] =
                                     @ \cup { Handle(i, 0, b) : b \in r.borrows }]
    /\ LET again == init_state(params[s][fetched[s] + 1], archetypes,
                               system_meta[s])
       IN  /\ system_meta' = [system_meta EXCEPT ![s] = again.meta]
           /\ status' = [status EXCEPT ![s] =
                            IF again.panicked THEN "panicked" ELSE @]
           /\ diagnostic' = [diagnostic EXCEPT ![s] = again.error]
    /\ UNCHANGED << worldVars, gizmos, params, param_state, run_tick >>

\* the tuple's get_param calls get_param of its next member, of the given kind
GetParam(s, kind) ==
    /\ phase[s] = "fetching"
    /\ LET i == fetched[s] + 1
           p == params[s][i]
           r == get_param(p, param_state[s][i], system_meta[s], resources,
                          run_tick[s])
       IN  /\ p.kind = kind
           /\ IF r.panicked
              THEN /\ phase' = [phase EXCEPT ![s] = "panicked"]
                   /\ handles' = [handles EXCEPT ![s] = {}]
                   /\ UNCHANGED << fetched, items >>
              ELSE /\ phase' = [phase EXCEPT ![s] =
                                   IF i = Len(params[s]) THEN "running"
                                   ELSE "fetching"]
                   /\ fetched' = [fetched EXCEPT ![s] = i]
                   /\ items' = [items EXCEPT ![s] = Append(@, r.item)]
                   /\ handles' = [handles EXCEPT ![s] =
                                     @ \cup { Handle(i, 0, b) : b \in r.borrows }]
    /\ UNCHANGED << worldVars, gizmos, buildVars, run_tick >>

GetParamQuery(s) == GetParam(s, "Query")
GetParamRes(s) == GetParam(s, "Res")
GetParamOptionRes(s) == GetParam(s, "OptionRes")
GetParamResMut(s) == GetParam(s, "ResMut")
GetParamOptionResMut(s) == GetParam(s, "OptionResMut")
GetParamCommands(s) == GetParam(s, "Commands")
GetParamWorld(s) == GetParam(s, "World")
GetParamLocal(s) == GetParam(s, "Local")
GetParamNonSend(s) == GetParam(s, "NonSend")
GetParamOptionNonSend(s) == GetParam(s, "OptionNonSend")
GetParamNonSendMut(s) == GetParam(s, "NonSendMut")
GetParamOptionNonSendMut(s) == GetParam(s, "OptionNonSendMut")
GetParamSystemChangeTick(s) == GetParam(s, "SystemChangeTick")
GetParamParamSet(s) == GetParam(s, "ParamSet")
GetParamStatic(s) == GetParam(s, "Static")

\* ParamSet::p0(), p1(), ... with an accessor that borrows the ParamSet
\* immutably: the item of another member may be alive
ParamSetAccess_shared_borrow(s) ==
    /\ phase[s] = "running"
    /\ \E i \in DOMAIN params[s] :
         /\ params[s][i].kind = "ParamSet"
         /\ \E k \in DOMAIN params[s][i].members :
              LET r == Bare_get_param(params[s][i].members[k],
                                      param_state[s][i].members[k],
                                      system_meta[s], resources,
                                      items[s][i].change_tick)
              IN  IF r.panicked
                  THEN /\ phase' = [phase EXCEPT ![s] = "panicked"]
                       /\ handles' = [handles EXCEPT ![s] = {}]
                  ELSE /\ r.borrows # {}
                       /\ handles' = [handles EXCEPT ![s] =
                                         @ \cup { Handle(i, k, b) : b \in r.borrows }]
                       /\ UNCHANGED phase
    /\ UNCHANGED << worldVars, gizmos, buildVars, fetched, items, run_tick >>

\* ParamSet::p0(), p1(), ...: get_param of member k of the ParamSet at
\* position i.  The accessor borrows the ParamSet mutably, so the item of
\* another member of the same ParamSet cannot be alive.
ParamSetAccess(s) ==
    /\ phase[s] = "running"
    /\ \E i \in DOMAIN params[s] :
         /\ params[s][i].kind = "ParamSet"
         /\ \A h \in handles[s] : h.param # i
         /\ \E k \in DOMAIN params[s][i].members :
              LET r == Bare_get_param(params[s][i].members[k],
                                      param_state[s][i].members[k],
                                      system_meta[s], resources,
                                      items[s][i].change_tick)
              IN  IF r.panicked
                  THEN /\ phase' = [phase EXCEPT ![s] = "panicked"]
                       /\ handles' = [handles EXCEPT ![s] = {}]
                  ELSE /\ r.borrows # {}
                       /\ handles' = [handles EXCEPT ![s] =
                                         @ \cup { Handle(i, k, b) : b \in r.borrows }]
                       /\ UNCHANGED phase
    /\ UNCHANGED << worldVars, gizmos, buildVars, fetched, items, run_tick >>

\* the item of a ParamSet member is dropped
ParamSetRelease(s) ==
    /\ phase[s] = "running"
    /\ \E i \in DOMAIN params[s] :
         /\ \E h \in handles[s] : h.param = i /\ h.member # 0
         /\ handles' = [handles EXCEPT ![s] = { h \in @ : h.param # i }]
    /\ UNCHANGED << worldVars, gizmos, buildVars, phase, fetched, items, run_tick >>

\* the system function returns: the items are dropped
EndRun(s) ==
    /\ phase[s] = "running"
    /\ phase' = [phase EXCEPT ![s] = "idle"]
    /\ handles' = [handles EXCEPT ![s] = {}]
    /\ items' = [items EXCEPT ![s] = << >>]
    /\ fetched' = [fetched EXCEPT ![s] = 0]
    /\ system_meta' = [system_meta EXCEPT ![s].last_change_tick = run_tick[s]]
    /\ UNCHANGED << worldVars, gizmos, params, param_state, status, diagnostic, run_tick >>

\* World::insert_resource and World::remove_resource need the World mutably:
\* no system is being invoked
InsertResource ==
    /\ \A s \in Systems : phase[s] = "idle"
    /\ \E id \in ResourceIds :
         /\ ~ resources[id].present
         /\ resources' = [resources EXCEPT ![id] =
                             [present |-> TRUE, added |-> world_tick,
                              changed |-> world_tick]]
    /\ UNCHANGED << archetypes, world_tick, removed, gizmos, buildVars, runVars >>

RemoveResource ==
    /\ \A s \in Systems : phase[s] = "idle"
    /\ \E id \in ResourceIds :
         /\ resources[id].present
         /\ resources' = [resources EXCEPT ![id] = Slot]
    /\ UNCHANGED << archetypes, world_tick, removed, gizmos, buildVars, runVars >>

(***************************************************************************)
(* The invocations of one built system, with resources inserted and        *)
(* removed between them.                                                   *)
(***************************************************************************)
Lists(universe, n) == UNION { [1 .. k -> universe] : k \in 0 .. n }

BuiltLists(universe, n, arch) ==
    { ps \in Lists(universe, n) : ~ Build(ps, arch).panicked }

RunParams ==
    ResourceParams
    \cup { Param("World", 0), Param("Query", 1), Param("Query", 3),
           Param("Commands", 0), Param("Local", 0),
           ParamSetOf(<< Param("ResMut", 1), Param("ResMut", 1) >>),
           ParamSetOf(<< Param("Res", 1), Param("NonSendMut", 2) >>),
           ParamSetOf(<< Param("World", 0), Param("OptionResMut", 1) >>) }

\* every system is built, from one of the given assignments of parameter lists
InitBuilt(assignments) ==
    /\ params \in assignments
    /\ system_meta = [s \in Systems |-> Build(params[s], archetypes).meta]
    /\ param_state = [s \in Systems |-> Build(params[s], archetypes).state.members]
    /\ status = [s \in Systems |-> "built"]
    /\ diagnostic = [s \in Systems |-> NoDiagnostic]

InitRun ==
    /\ InitWorld
    /\ InitIdle
    /\ InitGizmos
    /\ InitBuilt({ [s \in Systems |-> IF s = Built THEN ps ELSE << >>] :
                   ps \in BuiltLists(RunParams, MaxRunParams, {1}) })

NextRun ==
    \/ BeginRun(Built)
    \/ GetParamQuery(Built)
    \/ GetParamRes(Built)
    \/ GetParamOptionRes(Built)
    \/ GetParamResMut(Built)
    \/ GetParamOptionResMut(Built)
    \/ GetParamCommands(Built)
    \/ GetParamWorld(Built)
    \/ GetParamLocal(Built)
    \/ GetParamNonSend(Built)
    \/ GetParamOptionNonSend(Built)
    \/ GetParamNonSendMut(Built)
    \/ GetParamOptionNonSendMut(Built)
    \/ GetParamParamSet(Built)
    \/ ParamSetAccess(Built)
    \/ ParamSetRelease(Built)
    \/ EndRun(Built)
    \/ InsertResource
    \/ RemoveResource

SpecRun == InitRun /\ [][NextRun]_vars

(***************************************************************************)
(* A stage of two built systems that the executor runs concurrently.       *)
(***************************************************************************)
StageParams ==
    { Param("Res", 1), Param("ResMut", 1), Param("NonSendMut", 2),
      Param("World", 0),
      ParamSetOf(<< Param("ResMut", 1), Param("ResMut", 1) >>),
      ParamSetOf(<< Param("World", 0), Param("ResMut", 1) >>) }

InitStage ==
    /\ resources = [id \in ResourceIds |->
                       [present |-> TRUE, added |-> 1, changed |-> 1]]
    /\ archetypes = {1}
    /\ removed = [c \in ComponentIds |-> << >>]
    /\ world_tick = 1
    /\ InitIdle
    /\ InitGizmos
    /\ InitBuilt([Systems -> BuiltLists(StageParams, MaxRunParams, {1})])

NextStage ==
    \E s \in Systems :
        \/ BeginRun(s)
        \/ GetParamRes(s)
        \/ GetParamResMut(s)
        \/ GetParamNonSendMut(s)
        \/ GetParamWorld(s)
        \/ GetParamParamSet(s)
        \/ ParamSetAccess(s)
        \/ ParamSetRelease(s)
        \/ EndRun(s)

SpecStage == InitStage /\ [][NextStage]_vars

(***************************************************************************)
(* Change ticks.  A tick is an unsigned integer of TickBits bits that      *)
(* wraps around.  Tick::is_older_than and ComponentTicks are defined       *)
(* outside system_param.rs; they follow the design document (sections 4.2  *)
(* and 8): a tick is newer than last_change_tick when, counted back from   *)
(* change_tick with wraparound, it is reached first.                       *)
(***************************************************************************)
TickModulus == 2 ^ TickBits

Ticks == 0 .. TickModulus - 1

wrapping_add(a, b) == (a + b) % TickModulus

wrapping_sub(a, b) == (a - b) % TickModulus

Tick_is_older_than(tick, last_change_tick, change_tick) ==
    LET ticks_since_insert == wrapping_sub(change_tick, tick)
        ticks_since_system == wrapping_sub(change_tick, last_change_tick)
    IN  ticks_since_system > ticks_since_insert

ComponentTicks_is_added(ticks, last_change_tick, change_tick) ==
    Tick_is_older_than(ticks.added, last_change_tick, change_tick)

ComponentTicks_is_changed(ticks, last_change_tick, change_tick) ==
    Tick_is_older_than(ticks.changed, last_change_tick, change_tick)

\* the ComponentTicks that a NonSend item holds
ticks_of(item) == [added |-> item.added, changed |-> item.changed]

Res_is_added(item) ==
    Tick_is_older_than(item.added, item.last_change_tick, item.change_tick)

\* Res::is_changed that compares the added tick
Res_is_changed_of_added(item) ==
    Tick_is_older_than(item.added, item.last_change_tick, item.change_tick)

Res_is_changed(item) ==
    Tick_is_older_than(item.changed, item.last_change_tick, item.change_tick)

NonSend_is_added(item) ==
    ComponentTicks_is_added(ticks_of(item), item.last_change_tick, item.change_tick)

NonSend_is_changed(item) ==
    ComponentTicks_is_changed(ticks_of(item), item.last_change_tick,
                              item.change_tick)

\* is_added and is_changed of ResMut and NonSendMut (DetectChanges)
Mut_is_added(item) ==
    Tick_is_older_than(item.added, item.last_change_tick, item.change_tick)

Mut_is_changed(item) ==
    Tick_is_older_than(item.changed, item.last_change_tick, item.change_tick)

is_added(item) ==
    CASE item.kind = "Res" -> Res_is_added(item)
      [] item.kind = "NonSend" -> NonSend_is_added(item)
      [] OTHER -> Mut_is_added(item)

is_changed(item) ==
    CASE item.kind = "Res" -> Res_is_changed(item)
      [] item.kind = "NonSend" -> NonSend_is_changed(item)
      [] OTHER -> Mut_is_changed(item)

\* From<ResMut> for Res with change_tick and last_change_tick exchanged
Res_from_ResMut_swapped_ticks(res) ==
    [kind |-> "Res", some |-> res.some, mutable |-> FALSE,
     id |-> res.id,
     added |-> res.added,
     changed |-> res.changed,
     change_tick |-> res.last_change_tick,
     last_change_tick |-> res.change_tick]

\* impl From<ResMut<T>> for Res<T>
Res_from_ResMut(res) ==
    [kind |-> "Res", some |-> res.some, mutable |-> FALSE,
     id |-> res.id,
     added |-> res.added,
     changed |-> res.changed,
     change_tick |-> res.change_tick,
     last_change_tick |-> res.last_change_tick]

\* impl From<NonSendMut<T>> for NonSend<T>
NonSend_from_NonSendMut(nsm) ==
    [kind |-> "NonSend", some |-> nsm.some, mutable |-> FALSE,
     id |-> nsm.id,
     added |-> nsm.added,
     changed |-> nsm.changed,
     change_tick |-> nsm.change_tick,
     last_change_tick |-> nsm.last_change_tick]

\* the system converts the ResMut or NonSendMut item at position i into a
\* Res or NonSend: the item is consumed, its borrow becomes shared
Downgrade(s) ==
    /\ phase[s] = "running"
    /\ \E i \in DOMAIN items[s] :
         /\ items[s][i].kind \in {"ResMut", "NonSendMut"}
         /\ items[s][i].some
         /\ items' = [items EXCEPT ![s][i] =
                          IF @.kind = "ResMut" THEN Res_from_ResMut(@)
                          ELSE NonSend_from_NonSendMut(@)]
         /\ handles' = [handles EXCEPT ![s] =
                            { IF h.param = i THEN [h EXCEPT !.mutable = FALSE]
                              ELSE h : h \in @ }]
    /\ UNCHANGED << worldVars, gizmos, buildVars, phase, fetched, run_tick >>

(***************************************************************************)
(* The invocations of one system that holds one resource handle, while     *)
(* the change tick of the World advances and wraps around and the          *)
(* resource is changed between the invocations.                            *)
(***************************************************************************)
\* World::increment_change_tick
increment_change_tick ==
    /\ \A s \in Systems : phase[s] = "idle"
    /\ world_tick' = wrapping_add(world_tick, 1)
    /\ UNCHANGED << resources, archetypes, removed, gizmos, buildVars, runVars >>

\* the resource is mutated through the World: its changed tick is set to
\* the change tick of the World
TouchResource ==
    /\ \A s \in Systems : phase[s] = "idle"
    /\ \E id \in ResourceIds :
         /\ resources[id].present
         /\ resources' = [resources EXCEPT ![id].changed = world_tick]
    /\ UNCHANGED << archetypes, world_tick, removed, gizmos, buildVars, runVars >>

TickParams ==
    { Param("Res", 1), Param("NonSend", 1), Param("ResMut", 1),
      Param("NonSendMut", 1), Param("SystemChangeTick", 0) }

\* the World has run for any number of ticks, or is one tick before the
\* wraparound, when the resource is inserted
InitTicks ==
    /\ world_tick \in {0, TickModulus - 1}
    /\ resources = [id \in ResourceIds |->
                       IF id = 1
                       THEN [present |-> TRUE, added |-> world_tick,
                             changed |-> world_tick]
                       ELSE Slot]
    /\ archetypes = {1}
    /\ removed = [c \in ComponentIds |-> << >>]
    /\ InitIdle
    /\ InitGizmos
    /\ InitBuilt({ [s \in Systems |-> IF s = Built THEN << p >> ELSE << >>] :
                   p \in TickParams })

NextTicks ==
    \/ increment_change_tick
    \/ TouchResource
    \/ BeginRun(Built)
    \/ GetParamRes(Built)
    \/ GetParamNonSend(Built)
    \/ GetParamResMut(Built)
    \/ GetParamNonSendMut(Built)
    \/ GetParamSystemChangeTick(Built)
    \/ Downgrade(Built)
    \/ EndRun(Built)

SpecTicks == InitTicks /\ [][NextTicks]_vars

(***************************************************************************)
(* Local state.  The State of a Local<T> is a T, made once by init_state   *)
(* and kept by the system at the position of the parameter; the item is a  *)
(* mutable reference to it, through which the system function writes.      *)
(***************************************************************************)
\* the values a system function writes through a Local
LocalValues == {42}

LocalParams == { Param("Local", 0), Param("Commands", 0) }

\* the positions of a system that hold a Local
LocalPositions(s) == { i \in DOMAIN params[s] : params[s][i].kind = "Local" }

\* DerefMut for Local, were the T of every Local kept in one place
LocalWrite_shared(s) ==
    /\ phase[s] = "running"
    /\ \E i \in LocalPositions(s), v \in LocalValues :
         /\ param_state[s][i].value # v
         /\ param_state' =
                [t \in Systems |->
                    [j \in DOMAIN param_state[t] |->
                        IF j \in LocalPositions(t)
                        THEN [param_state[t][j] EXCEPT !.value = v]
                        ELSE param_state[t][j]]]
    /\ UNCHANGED << worldVars, gizmos, params, system_meta, status, diagnostic, runVars >>

\* DerefMut for Local: the system function assigns through the item of one of
\* its Local parameters, which is the &mut T of that parameter's State
LocalWrite(s) ==
    /\ phase[s] = "running"
    /\ \E i \in LocalPositions(s), v \in LocalValues :
         /\ param_state[s][i].value # v
         /\ param_state' = [param_state EXCEPT ![s][i].value = v]
    /\ UNCHANGED << worldVars, gizmos, params, system_meta, status, diagnostic, runVars >>

\* the World gets a new archetype between two invocations; new_archetype of
\* Local and of Commands is the empty default of the trait
AddArchetype ==
    /\ \A s \in Systems : phase[s] = "idle"
    /\ \E a \in ArchetypeIds \ archetypes :
         archetypes' = archetypes \cup {a}
    /\ UNCHANGED << resources, world_tick, removed, gizmos, buildVars, runVars >>

InitLocal ==
    /\ InitWorld
    /\ InitIdle
    /\ InitGizmos
    /\ InitBuilt({ [s \in Systems |-> IF s = Built THEN ps ELSE << Param("Local", 0) >>] :
                   ps \in BuiltLists(LocalParams, MaxRunParams, {1}) })

NextLocal ==
    \/ AddArchetype
    \/ \E s \in Systems :
        \/ BeginRun(s)
        \/ GetParamLocal(s)
        \/ GetParamCommands(s)
        \/ LocalWrite(s)
        \/ EndRun(s)

SpecLocal == InitLocal /\ [][NextLocal]_vars

(***************************************************************************)
(* Commands.  The State of a Commands parameter is a CommandQueue; the     *)
(* item pushes commands to it during the invocation, and apply, which the  *)
(* executor calls when no system of the stage is running, writes them to   *)
(* the World.                                                              *)
(***************************************************************************)
\* the commands queued by one system and not yet applied are at most MaxQueue
MaxQueue == 2

Command(op, id) == [op |-> op, id |-> id]

\* the commands a system function issues: Commands::insert_resource and
\* Commands::remove_resource of the first resource
CommandSet == { Command("insert_resource", 1), Command("remove_resource", 1) }

\* Command::write: what one command does to the World
Command_write(cmd, res, tick) ==
    IF cmd.op = "insert_resource"
    THEN [res EXCEPT ![cmd.id] =
             [present |-> TRUE,
              added |-> IF res[cmd.id].present THEN res[cmd.id].added ELSE tick,
              changed |-> tick]]
    ELSE [res EXCEPT ![cmd.id] = Slot]

RECURSIVE CommandQueue_write(_, _, _, _)
CommandQueue_write(queue, i, res, tick) ==
    IF i > Len(queue) THEN res
    ELSE CommandQueue_write(queue, i + 1, Command_write(queue[i], res, tick), tick)

\* CommandQueue::apply: writes the commands from the first queued to the
\* last, and leaves the queue empty
CommandQueue_apply(queue, res, tick) ==
    [queue |-> << >>, resources |-> CommandQueue_write(queue, 1, res, tick)]

Applied(state, res) == [state |-> state, resources |-> res]

\* Commands::apply that writes a copy of the queue
Commands_apply_keeps_queue(state, meta, res, tick) ==
    LET r == CommandQueue_apply(state.queue, res, tick)
    IN  Applied(state, r.resources)

\* state.apply(world)
Commands_apply(state, meta, res, tick) ==
    LET r == CommandQueue_apply(state.queue, res, tick)
    IN  Applied([state EXCEPT !.queue = r.queue], r.resources)

RECURSIVE apply(_, _, _, _, _)

\* a StaticSystemParam that keeps the apply of the trait, which does nothing
StaticSystemParam_apply_default(p, state, meta, res, tick) ==
    Applied(state, res)

\* P::apply(state, system_meta, world)
StaticSystemParam_apply(p, state, meta, res, tick) ==
    apply(p.members[1], state, meta, res, tick)

\* the apply of the trait does nothing; Commands overrides it and
\* StaticSystemParam delegates
apply(p, state, meta, res, tick) ==
    IF p.kind = "Commands" THEN Commands_apply(state, meta, res, tick)
    ELSE IF p.kind = "Static" THEN StaticSystemParam_apply(p, state, meta, res, tick)
    ELSE Applied(state, res)

\* a tuple whose apply calls apply of its members from the last to the first
RECURSIVE tuple_apply_right_to_left(_, _, _, _, _, _)
tuple_apply_right_to_left(ps, states, i, meta, res, tick) ==
    IF i > Len(ps) THEN Applied(states, res)
    ELSE LET k == Len(ps) + 1 - i
             r == apply(ps[k], states[k], meta, res, tick)
         IN  tuple_apply_right_to_left(ps, [states EXCEPT ![k] = r.state],
                                       i + 1, meta, r.resources, tick)

\* the tuple's apply calls apply of each member, left to right
RECURSIVE tuple_apply(_, _, _, _, _, _)
tuple_apply(ps, states, i, meta, res, tick) ==
    IF i > Len(ps) THEN Applied(states, res)
    ELSE LET r == apply(ps[i], states[i], meta, res, tick)
         IN  tuple_apply(ps, [states EXCEPT ![i] = r.state], i + 1, meta,
                         r.resources, tick)

\* the parameter whose item the system function uses: a StaticSystemParam
\* derefs to the item of the parameter it wraps
RECURSIVE Inner(_)
Inner(p) == IF p.kind = "Static" THEN Inner(p.members[1]) ELSE p

\* the positions of a system that hold a Commands
CommandsPositions(s) ==
    { i \in DOMAIN params[s] : Inner(params[s][i]).kind = "Commands" }

QueuedBy(s) ==
    LET lens == [i \in DOMAIN param_state[s] |-> Len(param_state[s][i].queue)]
        sum[i \in 0 .. Len(param_state[s])] ==
            IF i = 0 THEN 0 ELSE sum[i - 1] + lens[i]
    IN  sum[Len(param_state[s])]

\* the system function issues a command through one of its Commands items:
\* the command is pushed to the CommandQueue of that parameter
PushCommand(s) ==
    /\ phase[s] = "running"
    /\ QueuedBy(s) < MaxQueue
    /\ \E i \in CommandsPositions(s), cmd \in CommandSet :
         param_state' = [param_state EXCEPT ![s][i].queue = Append(@, cmd)]
    /\ UNCHANGED << worldVars, gizmos, params, system_meta, status, diagnostic, runVars >>

\* an executor that applies the buffers of a system at any time
ApplyBuffers_any_time(s) ==
    /\ status[s] = "built"
    /\ phase[s] = "idle"
    /\ LET r == tuple_apply(params[s], param_state[s], 1, system_meta[s],
                            resources, world_tick)
       IN  /\ param_state' = [param_state EXCEPT ![s] = r.state]
           /\ resources' = r.resources
    /\ UNCHANGED << archetypes, world_tick, removed, gizmos, params, system_meta, status,
                    diagnostic, runVars >>

\* the executor applies the buffers of a system at the end of the stage, when
\* every system of the stage has finished: apply takes the World as &mut World
ApplyBuffers(s) ==
    /\ status[s] = "built"
    /\ \A t \in Systems : phase[t] = "idle"
    /\ LET r == tuple_apply(params[s], param_state[s], 1, system_meta[s],
                            resources, world_tick)
       IN  /\ param_state' = [param_state EXCEPT ![s] = r.state]
           /\ resources' = r.resources
    /\ UNCHANGED << archetypes, world_tick, removed, gizmos, params, system_meta, status,
                    diagnostic, runVars >>

InitCommands ==
    /\ InitWorld
    /\ InitIdle
    /\ InitGizmos
    /\ InitBuilt({ [s \in Systems |->
                       IF s = Built THEN ps
                       ELSE << Param("Commands", 0), Param("OptionRes", 1) >>] :
                   ps \in BuiltLists(LocalParams, MaxRunParams, {1}) })

NextCommands ==
    \E s \in Systems :
        \/ BeginRun(s)
        \/ GetParamLocal(s)
        \/ GetParamOptionRes(s)
        \/ GetParamCommands(s)
        \/ PushCommand(s)
        \/ EndRun(s)
        \/ ApplyBuffers(s)

SpecCommands == InitCommands /\ [][NextCommands]_vars

(***************************************************************************)
(* The build of one system of resource handles and Locals, followed by its *)
(* invocations: the tuple's init_state, then the tuple's get_param.        *)
(***************************************************************************)
InitTuple ==
    /\ resources = [id \in ResourceIds |->
                       [present |-> TRUE, added |-> 1, changed |-> 1]]
    /\ archetypes = {1}
    /\ removed = [c \in ComponentIds |-> << >>]
    /\ world_tick = 1
    /\ InitIdle
    /\ InitGizmos
    /\ params = [s \in Systems |-> << >>]
    /\ system_meta = [s \in Systems |-> SystemMeta_new("system")]
    /\ param_state = [s \in Systems |-> << >>]
    /\ status = [s \in Systems |-> "building"]
    /\ diagnostic = [s \in Systems |-> NoDiagnostic]

NextTuple ==
    \/ RegisterRes(Built)
    \/ RegisterResMut(Built)
    \/ RegisterLocal(Built)
    \/ FinishBuild(Built)
    \/ BeginRun(Built)
    \/ GetParamRes(Built)
    \/ GetParamResMut(Built)
    \/ GetParamLocal(Built)
    \/ EndRun(Built)

SpecTuple == InitTuple /\ [][NextTuple]_vars

(***************************************************************************)
(* RemovedComponents.  The World records, by ComponentId, the entities a   *)
(* component was removed from; a RemovedComponents<T> item reads the       *)
(* record of T, and World::clear_trackers empties the records.             *)
(***************************************************************************)
\* a record holds at most MaxRemoved entities
MaxRemoved == 2

Entities == {1, 2}

\* the components of entities, as opposed to resources
EntityComponents == {CompC, CompM}

RemovedParams == { Param("RemovedComponents", c) : c \in EntityComponents }

\* World::removed_with_id
removed_with_id(rem, component_id) == rem[component_id]

\* RemovedComponents::iter
RemovedComponents_iter(item, rem) == removed_with_id(rem, item.id)

\* a component is removed from an entity, or the entity is despawned: the
\* World is borrowed mutably, no system is being invoked
RemoveComponent ==
    /\ \A s \in Systems : phase[s] = "idle"
    /\ \E c \in EntityComponents, e \in Entities :
         /\ Len(removed[c]) < MaxRemoved
         /\ removed' = [removed EXCEPT ![c] = Append(@, e)]
    /\ UNCHANGED << resources, archetypes, world_tick, gizmos, buildVars, runVars >>

\* World::clear_trackers, run outside of the schedule
clear_trackers ==
    /\ \A s \in Systems : phase[s] = "idle"
    /\ \E c \in ComponentIds : removed[c] # << >>
    /\ removed' = [c \in ComponentIds |-> << >>]
    /\ UNCHANGED << resources, archetypes, world_tick, gizmos, buildVars, runVars >>

GetParamRemovedComponents(s) == GetParam(s, "RemovedComponents")

\* an iter() that takes the entities out of the record
Iterate_drains(s) ==
    /\ phase[s] = "running"
    /\ \E i \in DOMAIN items[s] :
         /\ items[s][i].kind = "RemovedComponents"
         /\ items' = [items EXCEPT ![s][i].entities =
                          RemovedComponents_iter(items[s][i], removed)]
         /\ removed' = [removed EXCEPT ![items[s][i].id] = << >>]
    /\ UNCHANGED << resources, archetypes, world_tick, gizmos, buildVars,
                    phase, fetched, handles, run_tick >>

\* the system function iterates one of its RemovedComponents items
Iterate(s) ==
    /\ phase[s] = "running"
    /\ \E i \in DOMAIN items[s] :
         /\ items[s][i].kind = "RemovedComponents"
         /\ items' = [items EXCEPT ![s][i].entities =
                          RemovedComponents_iter(items[s][i], removed)]
    /\ UNCHANGED << worldVars, gizmos, buildVars, phase, fetched, handles, run_tick >>

InitRemoved ==
    /\ InitWorld
    /\ InitIdle
    /\ InitGizmos
    /\ InitBuilt({ [s \in Systems |->
                       IF s = Built THEN ps
                       ELSE << Param("RemovedComponents", CompC) >>] :
                   ps \in BuiltLists(RemovedParams, MaxRunParams, {1}) })

NextRemoved ==
    \/ RemoveComponent
    \/ clear_trackers
    \/ \E s \in Systems :
        \/ BeginRun(s)
        \/ GetParamRemovedComponents(s)
        \/ Iterate(s)
        \/ EndRun(s)

SpecRemoved == InitRemoved /\ [][NextRemoved]_vars

(***************************************************************************)
(* new_archetype.  When the World has a new archetype, the system calls    *)
(* new_archetype of its parameters with it: a Query whose QueryState       *)
(* matches the archetype extends archetype_component_access of the system. *)
(***************************************************************************)
\* state and accumulator after a new_archetype
Extended(state, meta) == [state |-> state, meta |-> meta]

\* QueryState::new_archetype: the archetype joins the matched ones if the
\* query matches it
QueryState_new_archetype(q, matched, a) ==
    IF QueryMatches(q, a) THEN matched \cup {a} ELSE matched

\* Query::new_archetype that extends the accumulator before the QueryState
\* has seen the archetype
Query_new_archetype_extend_first(state, a, meta) ==
    LET q == QueryTypes[state.id]
        matched == QueryState_new_archetype(q, state.matched, a)
    IN  Extended([state EXCEPT !.matched = matched],
                 [meta EXCEPT !.archetype_component_access =
                     extend(@, QueryArchetypeAccess(q, state.matched))])

\* state.new_archetype(archetype), then
\* archetype_component_access.extend(&state.archetype_component_access)
Query_new_archetype(state, a, meta) ==
    LET q == QueryTypes[state.id]
        matched == QueryState_new_archetype(q, state.matched, a)
    IN  Extended([state EXCEPT !.matched = matched],
                 [meta EXCEPT !.archetype_component_access =
                     extend(@, QueryArchetypeAccess(q, matched))])

RECURSIVE new_archetype(_, _, _, _)

\* P::new_archetype(state, archetype, system_meta)
StaticSystemParam_new_archetype(p, state, a, meta) ==
    new_archetype(p.members[1], state, a, meta)

\* a new_archetype whose default records a read of the archetype's storage
\* for every parameter
new_archetype_default_tracks(p, state, a, meta) ==
    IF p.kind = "Query" THEN Query_new_archetype(state, a, meta)
    ELSE IF p.kind = "Static" THEN StaticSystemParam_new_archetype(p, state, a, meta)
    ELSE Extended(state,
                  [meta EXCEPT !.archetype_component_access =
                      add_read(@, << a, CompC >>)])

\* SystemParam::new_archetype: the trait's default does nothing, Query
\* overrides it and StaticSystemParam delegates
new_archetype(p, state, a, meta) ==
    IF p.kind = "Query" THEN Query_new_archetype(state, a, meta)
    ELSE IF p.kind = "Static" THEN StaticSystemParam_new_archetype(p, state, a, meta)
    ELSE Extended(state, meta)

\* the tuple's new_archetype calls new_archetype of each member, left to right
RECURSIVE tuple_new_archetype(_, _, _, _, _)
tuple_new_archetype(ps, states, i, a, meta) ==
    IF i > Len(ps) THEN Extended(states, meta)
    ELSE LET r == new_archetype(ps[i], states[i], a, meta)
         IN  tuple_new_archetype(ps, [states EXCEPT ![i] = r.state], i + 1, a,
                                 r.meta)

\* the system is told of an archetype of the World, before it runs
NewArchetype(s) ==
    /\ status[s] = "built"
    /\ phase[s] = "idle"
    /\ \E a \in archetypes :
         LET r == tuple_new_archetype(params[s], param_state[s], 1, a,
                                      system_meta[s])
         IN  /\ param_state' = [param_state EXCEPT ![s] = r.state]
             /\ system_meta' = [system_meta EXCEPT ![s] = r.meta]
    /\ UNCHANGED << worldVars, gizmos, params, status, diagnostic, runVars >>

ArchetypeParams ==
    QueryParams
    \cup { Param("Res", 1), Param("ResMut", 1), Param("ResMut", 2),
           Param("NonSendMut", 2), Param("OptionRes", 2), Param("World", 0) }

InitArchetype ==
    /\ InitWorld
    /\ InitIdle
    /\ InitGizmos
    /\ InitBuilt({ [s \in Systems |-> IF s = Built THEN ps ELSE << >>] :
                   ps \in BuiltLists(ArchetypeParams, MaxRunParams, {1}) })

NextArchetype ==
    \/ AddArchetype
    \/ NewArchetype(Built)

SpecArchetype == InitArchetype /\ [][NextArchetype]_vars

(***************************************************************************)
(* The footprint a parameter declares by its type: the (slot, mode) pairs  *)
(* over ComponentIds, and over the storage locations of the archetypes.    *)
(***************************************************************************)
WriteKinds == {"ResMut", "OptionResMut", "NonSendMut", "OptionNonSendMut"}

ModeOf(p) == IF p.kind \in WriteKinds THEN "Write" ELSE "Read"

StorageIds(arch) ==
    { << ResourceArchetype, r >> : r \in ResourceIds }
    \cup UNION { { << a, c >> : c \in ArchetypeComponents(a) } : a \in arch }

BareDeclaredComponents(p) ==
    IF p.kind \in ResourceKinds THEN { << p.id, ModeOf(p) >> }
    ELSE IF p.kind = "Query"
    THEN { << c, "Read" >> : c \in QueryTypes[p.id].reads }
         \cup { << c, "Write" >> : c \in QueryTypes[p.id].writes }
    ELSE IF p.kind = "World" THEN { << c, "Read" >> : c \in ComponentIds }
    ELSE {}

BareDeclaredStorage(p, arch) ==
    IF p.kind \in ResourceKinds THEN { << << ResourceArchetype, p.id >>, ModeOf(p) >> }
    ELSE IF p.kind = "Query"
    THEN LET q == QueryTypes[p.id]
             matched == { a \in arch : QueryMatches(q, a) }
         IN  { << << a, c >>, "Read" >> : a \in matched, c \in q.reads }
             \cup { << << a, c >>, "Write" >> : a \in matched, c \in q.writes }
    ELSE IF p.kind = "World" THEN { << x, "Read" >> : x \in StorageIds(arch) }
    ELSE {}

DeclaredComponents(p) ==
    IF p.kind = "ParamSet"
    THEN UNION { BareDeclaredComponents(p.members[k]) : k \in DOMAIN p.members }
    ELSE BareDeclaredComponents(p)

DeclaredStorage(p, arch) ==
    IF p.kind = "ParamSet"
    THEN UNION { BareDeclaredStorage(p.members[k], arch) : k \in DOMAIN p.members }
    ELSE BareDeclaredStorage(p, arch)

\* a slot that is written is not also listed as read
Normalise(pairs) ==
    { x \in pairs : x[2] = "Write" \/ << x[1], "Write" >> \notin pairs }

\* the (slot, mode) pairs of an Access, over the slots of universe
AccessPairs(a, universe) ==
    { << x, "Write" >> : x \in a.writes }
    \cup { << x, "Read" >> :
           x \in { y \in universe \cup a.reads_and_writes : has_read(a, y) } \ a.writes }

\* two parameters touch a common storage location, one of them writing it
StorageConflict(p, q) ==
    \E x \in BareDeclaredStorage(p, ArchetypeIds),
       y \in BareDeclaredStorage(q, ArchetypeIds) :
        x[1] = y[1] /\ (x[2] = "Write" \/ y[2] = "Write")

ResourceOnly(ps) == \A i \in DOMAIN ps : ps[i].kind \in ResourceKinds

ConflictingResourcePair(ps) ==
    \E i, j \in DOMAIN ps :
        /\ i # j
        /\ ps[i].id = ps[j].id
        /\ (ps[i].kind \in WriteKinds \/ ps[j].kind \in WriteKinds)

(***************************************************************************)
(* C1: a system whose parameters are resource handles (Res, ResMut,        *)
(* NonSend, NonSendMut and their Option variants) fails to build with an   *)
(* access conflict if and only if two distinct parameters target the same  *)
(* slot and at least one of them declares Write; reads of one slot, in any *)
(* number, build.                                                          *)
(***************************************************************************)
C1_ResourceConflictIff ==
    ResourceOnly(params[Built]) =>
        ((status[Built] = "panicked") <=> ConflictingResourcePair(params[Built]))

\* two reads of slot 1 registered, then a write of slot 1 panics
C1_Witness ==
    /\ status[Built] = "panicked"
    /\ params[Built] = << Param("Res", 1), Param("OptionNonSend", 1),
                          Param("ResMut", 1) >>

(***************************************************************************)
(* C7: when every registration succeeded, the accumulated footprint of the *)
(* system is exactly the union of the footprints its parameters declare,   *)
(* in the component-keyed and in the storage-keyed accumulator.            *)
(***************************************************************************)
C7_FootprintIsUnion ==
    status[Built] # "panicked" =>
        LET ps == params[Built]
            meta == system_meta[Built]
        IN  /\ AccessPairs(meta.component_access_set.combined_access, ComponentIds)
                 = Normalise(UNION { DeclaredComponents(ps[i]) : i \in DOMAIN ps })
            /\ AccessPairs(meta.archetype_component_access, StorageIds(archetypes))
                 = Normalise(UNION { DeclaredStorage(ps[i], archetypes) :
                                     i \in DOMAIN ps })

\* a built system of a resource read, a resource write and a query
C7_Witness ==
    /\ status[Built] = "built"
    /\ params[Built] = << Param("Res", 1), Param("Query", 3), Param("NonSendMut", 2) >>

(***************************************************************************)
(* C8: conflict detection does not depend on the declaration order: for a  *)
(* list of resource handles, queries, &World and access-free parameters,   *)
(* the build of every permutation of the list fails if and only if the     *)
(* build of the list fails.                                                *)
(***************************************************************************)
IndexPermutations(n) ==
    { f \in [1 .. n -> 1 .. n] : \A i, j \in 1 .. n : f[i] = f[j] => i = j }

Permuted(ps, f) == [i \in DOMAIN ps |-> ps[f[i]]]

C8_OrderIndependent ==
    LET ps == params[Built]
    IN  (\A i \in DOMAIN ps : ps[i] \in BareParams) =>
            \A f \in IndexPermutations(Len(ps)) :
                Build(Permuted(ps, f), archetypes).panicked
                    <=> (status[Built] = "panicked")

\* a read then a write of slot 2 panics at the write; reversed, at the read
C8_Witness ==
    /\ status[Built] = "panicked"
    /\ params[Built] = << Param("Res", 2), Param("Commands", 0), Param("ResMut", 2) >>

MutuallyConflicting(members) ==
    \E i, j \in DOMAIN members :
        i # j /\ StorageConflict(members[i], members[j])

C10_ParamSetToleratesMembers ==
    LET ps == params[Built]
    IN  (Len(ps) = 1 /\ ps[1].kind = "ParamSet") =>
            /\ status[Built] # "panicked"
            /\ MutuallyConflicting(ps[1].members) =>
                   Build(ps[1].members, archetypes).panicked

\* a built system whose only parameter is a ParamSet of two writes of slot 1
C10_Witness ==
    /\ status[Built] = "built"
    /\ params[Built] = << ParamSetOf(<< Param("ResMut", 1), Param("ResMut", 1) >>) >>

(***************************************************************************)
(* Live handles.                                                           *)
(***************************************************************************)
\* two handles reach a common storage location
Overlap(h, g) ==
    \/ h.slots \cap g.slots # {}
    \/ h.all /\ (g.all \/ g.slots # {})
    \/ g.all /\ h.slots # {}

\* the parameter whose get_param produced the handle
ParamOf(s, h) ==
    IF h.member = 0 THEN params[s][h.param]
    ELSE params[s][h.param].members[h.member]

(***************************************************************************)
(* C2: during an invocation of a built system, a handle that can mutate    *)
(* a slot never coexists with another live handle to the same slot: a slot *)
(* has either one Exclusive handle, or Read handles only.                  *)
(***************************************************************************)
C2_ExclusiveOrShared ==
    \A s \in Systems : \A h, g \in handles[s] :
        (h # g /\ Overlap(h, g)) => (~ h.mutable /\ ~ g.mutable)

\* an Exclusive handle and another handle are live in one invocation
C2_Witness ==
    /\ phase[Built] = "running"
    /\ \E h, g \in handles[Built] : h # g /\ h.mutable /\ ~ g.mutable

(***************************************************************************)
(* C3: when the executor runs two systems concurrently only if their       *)
(* storage-keyed footprints are compatible, then in every interleaving of  *)
(* their fetches no Exclusive handle of one system reaches a slot that a   *)
(* handle of the other system reaches.                                     *)
(***************************************************************************)
C3_NoCrossSystemAliasing ==
    \A s, t \in Systems :
        s # t => \A h \in handles[s], g \in handles[t] :
                     Overlap(h, g) => (~ h.mutable /\ ~ g.mutable)

\* the two systems run concurrently, each holding an Exclusive handle
C3_Witness ==
    /\ \A s \in Systems : phase[s] = "running"
    /\ \A s \in Systems : \E h \in handles[s] : h.mutable

(***************************************************************************)
(* C4: every access of the World made by get_param is covered by what      *)
(* init_state registered: a location reached mutably is recorded as a      *)
(* write, a location reached read-only as a read or a write, in the        *)
(* component-keyed and in the storage-keyed footprint of the system.       *)
(***************************************************************************)
Covered(h, meta) ==
    LET fine == meta.component_access_set.combined_access
        coarse == meta.archetype_component_access
    IN  IF h.all THEN fine.reads_all /\ coarse.reads_all
        ELSE IF h.mutable
        THEN /\ \A c \in h.components : has_write(fine, c)
             /\ \A x \in h.slots : has_write(coarse, x)
        ELSE /\ \A c \in h.components : has_read(fine, c)
             /\ \A x \in h.slots : has_read(coarse, x)

C4_FetchCovered ==
    \A s \in Systems : \A h \in handles[s] : Covered(h, system_meta[s])

\* the handles of a NonSendMut and of a mutable Query are live
C4_Witness ==
    /\ phase[Built] = "running"
    /\ params[Built] = << Param("NonSendMut", 1), Param("Query", 3) >>
    /\ Cardinality(handles[Built]) = 2

(***************************************************************************)
(* C5: a parameter that claims the ReadOnlySystemParam marker never        *)
(* produces, from get_param, a handle that can mutate the World; a tuple   *)
(* claims the marker only if all its members do.                           *)
(***************************************************************************)
C5_ReadOnlyNeverMutates ==
    \A s \in Systems :
        /\ \A h \in handles[s] : ReadOnlySystemParam(ParamOf(s, h)) => ~ h.mutable
        /\ tuple_ReadOnlySystemParam(params[s]) =>
               \A h \in handles[s] : ~ h.mutable

(***************************************************************************)
(* C6: get_param of Res, ResMut, NonSend and NonSendMut panics exactly     *)
(* when the slot holds no value at the time of the fetch; get_param of     *)
(* their Option variants never panics and yields None exactly then.        *)
(***************************************************************************)
NonOptionalKinds == {"Res", "ResMut", "NonSend", "NonSendMut"}

OptionKinds == ResourceKinds \ NonOptionalKinds

C6_MissingResource ==
    \A s \in Systems :
        (phase[s] # "idle") =>
            /\ \A i \in 1 .. fetched[s] :
                 LET p == params[s][i]
                 IN  /\ p.kind \in NonOptionalKinds =>
                            (resources[p.id].present /\ items[s][i].some)
                     /\ p.kind \in OptionKinds =>
                            (items[s][i].some <=> resources[p.id].present)
            /\ (phase[s] = "panicked" /\ fetched[s] < Len(params[s])) =>
                 LET p == params[s][fetched[s] + 1]
                 IN  p.kind \in NonOptionalKinds /\ ~ resources[p.id].present
            /\ (phase[s] = "panicked" /\ fetched[s] = Len(params[s])) =>
                 \E i \in DOMAIN params[s] : \E k \in DOMAIN params[s][i].members :
                     LET p == params[s][i].members[k]
                     IN  p.kind \in NonOptionalKinds /\ ~ resources[p.id].present

\* Option<Res> yielded None, then Res of the same empty slot panicked, while
\* the other slot holds a value
C6_Witness ==
    /\ phase[Built] = "panicked"
    /\ params[Built] = << Param("OptionRes", 1), Param("Res", 1) >>
    /\ fetched[Built] = 1
    /\ ~ items[Built][1].some
    /\ resources[2].present

(***************************************************************************)
(* C11: at every point of an invocation at most one member handle obtained *)
(* from a given ParamSet through p0() .. p7() is live: the handles that    *)
(* come from one ParamSet all belong to the same member.                   *)
(***************************************************************************)
C11_OneMemberHandleLive ==
    \A s \in Systems : \A h, g \in handles[s] :
        (h.param = g.param /\ h.member # 0 /\ g.member # 0) => h.member = g.member

\* the handle of the second member of a ParamSet of two writes of slot 1 is
\* live, which requires that the handle of the first member is not
C11_Witness ==
    /\ phase[Built] = "running"
    /\ \E h \in handles[Built] :
         /\ h.member = 2
         /\ h.mutable
         /\ params[Built][h.param] =
                ParamSetOf(<< Param("ResMut", 1), Param("ResMut", 1) >>)

(***************************************************************************)
(* C12: outside a ParamSet, &World cannot share a system with a mutable    *)
(* access: a system that declares &World and a ResMut, a NonSendMut, one   *)
(* of their Option variants or a Query that writes a component fails to    *)
(* build, whichever is declared first; &World with read accesses only      *)
(* (Res, NonSend, read-only queries, another &World) builds.               *)
(***************************************************************************)
MutableParam(p) ==
    \/ p.kind \in WriteKinds
    \/ p.kind = "Query" /\ QueryTypes[p.id].writes # {}

C12_WorldExcludesMutable ==
    LET ps == params[Built]
    IN  ( /\ \A i \in DOMAIN ps : ps[i] \in BareParams
          /\ \E i \in DOMAIN ps : ps[i].kind = "World" )
        => /\ (\E j \in DOMAIN ps : MutableParam(ps[j]))
                  => status[Built] = "panicked"
           /\ (\A j \in DOMAIN ps : ~ MutableParam(ps[j]))
                  => status[Built] # "panicked"

\* &World declared after a Query that writes C but matches no archetype:
\* archetype_component_access is empty, the component access conflicts
C12_Witness ==
    /\ status[Built] = "panicked"
    /\ params[Built] = << Param("Query", 4), Param("Res", 1), Param("World", 0) >>

(***************************************************************************)
(* The whole-World footprint of &World, and the footprints a system has    *)
(* accumulated in its two coordinate systems.                              *)
(***************************************************************************)
Sentinel == read_all(Access_default)

NonEmptyAccess(a) == a.reads_all \/ a.reads_and_writes # {}

Accumulated(s) ==
    << system_meta[s].archetype_component_access,
       combined_access(system_meta[s].component_access_set) >>

NonSendKinds == {"NonSend", "NonSendMut", "OptionNonSend", "OptionNonSendMut"}

RECURSIVE DeclaresNonSend(_)
DeclaresNonSend(p) ==
    \/ p.kind \in NonSendKinds
    \/ \E k \in DOMAIN p.members : DeclaresNonSend(p.members[k])

C14_NonSendMark ==
    status[Built] # "panicked" =>
        (~ system_meta[Built].is_send
            <=> \E i \in DOMAIN params[Built] : DeclaresNonSend(params[Built][i]))

\* a built system whose only non-Send parameter is nested three levels deep
\* and is followed by Send parameters
C14_Witness ==
    /\ status[Built] = "built"
    /\ params[Built] =
           << TupleOf(<< Param("Local", 0),
                         TupleOf(<< StaticOf(Param("OptionNonSendMut", 1)) >>) >>),
              Param("Res", 2), StaticOf(Param("Res", 2)) >>
    /\ ~ system_meta[Built].is_send

(***************************************************************************)
(* The parameter whose registration failed, and what was declared before.  *)
(***************************************************************************)
LastParam(s) == params[s][Len(params[s])]

\* a parameter declared before the last one writes the resource id
WrittenBefore(s, id) ==
    \E i \in 1 .. Len(params[s]) - 1 :
        << id, "Write" >> \in DeclaredComponents(params[s][i])

\* the type that the message of a resource handle names: the Option
\* variants register through the type they wrap
NamedParam(kind) ==
    CASE kind \in {"Res", "OptionRes"} -> "Res"
      [] kind \in {"ResMut", "OptionResMut"} -> "ResMut"
      [] kind \in {"NonSend", "OptionNonSend"} -> "NonSend"
      [] kind \in {"NonSendMut", "OptionNonSendMut"} -> "NonSendMut"

\* the previous access that the message of a resource handle names
NamedPrevious(s, p) ==
    CASE p.kind \in {"Res", "OptionRes"} -> "ResMut"
      [] p.kind \in {"ResMut", "OptionResMut"} ->
            IF WrittenBefore(s, p.id) THEN "ResMut" ELSE "Res"
      [] p.kind \in {"NonSend", "OptionNonSend"} -> "mutable resource access"
      [] p.kind \in {"NonSendMut", "OptionNonSendMut"} ->
            IF WrittenBefore(s, p.id) THEN "mutable resource access"
            ELSE "immutable resource access"

DetectsSince(tick, detected, last_change_tick, change_tick) ==
    LET window == wrapping_sub(change_tick, last_change_tick)
    IN  window >= 1 =>
            /\ tick = last_change_tick => ~ detected
            /\ tick = wrapping_add(last_change_tick, 1) => detected
            /\ \A K \in 1 .. window :
                   tick = wrapping_add(last_change_tick, K) => detected

C16_ChangeDetectionWraps ==
    \A s \in Systems : \A i \in DOMAIN items[s] :
        LET item == items[s][i]
        IN  item.kind \in {"Res", "NonSend"} =>
                /\ DetectsSince(item.changed, is_changed(item),
                                item.last_change_tick, item.change_tick)
                /\ DetectsSince(item.added, is_added(item),
                                item.last_change_tick, item.change_tick)

\* a Res handle whose slot changed after the system last ran, the changed
\* tick and change_tick having wrapped around, and was added before
C16_Witness ==
    /\ phase[Built] = "running"
    /\ LET item == items[Built][1]
       IN  /\ item.kind = "Res"
           /\ item.changed < item.last_change_tick
           /\ item.change_tick < item.last_change_tick
           /\ is_changed(item)
           /\ ~ is_added(item)

(***************************************************************************)
(* C17: downgrading an Exclusive handle to a Read handle (ResMut -> Res,   *)
(* NonSendMut -> NonSend) preserves the referenced value, the added tick,  *)
(* the changed tick, last_change_tick and change_tick, so is_added() and   *)
(* is_changed() of the Read handle equal those of the Exclusive handle it  *)
(* came from.                                                              *)
(***************************************************************************)
\* position i of system s holds the Read handle that came from the
\* Exclusive handle which get_param produced for the parameter at i
Downgraded(s, i) ==
    /\ params[s][i].kind \in {"ResMut", "NonSendMut"}
    /\ items[s][i].kind \in {"Res", "NonSend"}

\* the Exclusive handle of position i, as get_param produced it
ExclusiveHandle(s, i) ==
    get_param(params[s][i], param_state[s][i], system_meta[s], resources,
              run_tick[s]).item

C17_DowngradePreserves ==
    \A s \in Systems : \A i \in DOMAIN items[s] :
        Downgraded(s, i) =>
            LET read == items[s][i]
                exclusive == ExclusiveHandle(s, i)
            IN  /\ read.kind = (IF exclusive.kind = "ResMut" THEN "Res" ELSE "NonSend")
                /\ read.id = exclusive.id
                /\ read.added = exclusive.added
                /\ read.changed = exclusive.changed
                /\ read.last_change_tick = exclusive.last_change_tick
                /\ read.change_tick = exclusive.change_tick
                /\ is_added(read) = is_added(exclusive)
                /\ is_changed(read) = is_changed(exclusive)

\* a Res that came from a ResMut whose slot changed since the system last
\* ran but was added before
C17_Witness ==
    /\ phase[Built] = "running"
    /\ Downgraded(Built, 1)
    /\ items[Built][1].kind = "Res"
    /\ items[Built][1].change_tick # items[Built][1].last_change_tick
    /\ is_changed(items[Built][1])
    /\ ~ is_added(items[Built][1])

(***************************************************************************)
(* C18.  A Local is never shared: whatever the interleaving of the         *)
(* invocations of the systems, a write through one Local changes the value *)
(* of no other Local, neither one of another system nor another Local of   *)
(* the same type in the same system.                                       *)
(***************************************************************************)
AllLocalPositions == { << s, i >> : s \in Systems, i \in 1 .. MaxRunParams }

IsLocal(l) == l[2] \in LocalPositions(l[1])

LocalValue(l) == param_state[l[1]][l[2]].value

C18_LocalNeverShared ==
    [][\A l \in AllLocalPositions, m \in AllLocalPositions :
          (IsLocal(l) /\ IsLocal(m) /\ l # m /\ LocalValue(l)' # LocalValue(l))
              => LocalValue(m)' = LocalValue(m)]_vars

\* one Local of the first system was written while the other Local of that
\* system and the Local a second, running system has fetched keep the value
\* they were built with
C18_Witness ==
    /\ \E i \in LocalPositions(Built), j \in LocalPositions(Built) :
         /\ i # j
         /\ param_state[Built][i].value \in LocalValues
         /\ param_state[Built][j].value = from_world({1})
    /\ \E t \in Systems \ {Built} :
         /\ phase[t] = "running"
         /\ phase[Built] = "running"
         /\ \E j \in LocalPositions(t) :
              /\ items[t][j].id = from_world({1})
              /\ param_state[t][j].value = from_world({1})

(***************************************************************************)
(* C19.  The value of a Local is made once, from the World at build time,  *)
(* and persists: only a write of the system itself during an invocation    *)
(* changes it, so the value a fetch observes is the value the previous     *)
(* invocation left; neither a fetch, nor the end of an invocation, nor a   *)
(* later change of the World makes it anew.                                *)
(***************************************************************************)
C19_LocalPersists ==
    [][\A l \in AllLocalPositions :
          IsLocal(l) =>
              /\ LocalValue(l)' # LocalValue(l)
                     => (phase[l[1]] = "running" /\ phase'[l[1]] = "running")
              /\ (fetched[l[1]] = l[2] - 1 /\ fetched'[l[1]] = l[2])
                     => items'[l[1]][l[2]].id = LocalValue(l)]_vars

\* a later invocation, after the World has changed, observes the value an
\* earlier invocation wrote
C19_Witness ==
    \E s \in Systems : \E i \in LocalPositions(s) :
        /\ archetypes # {1}
        /\ from_world(archetypes) # from_world({1})
        /\ fetched[s] >= i
        /\ items[s][i].id \in LocalValues
        /\ system_meta[s].last_change_tick = world_tick

(***************************************************************************)
(* C20.  The mutations issued through Commands are deferred.  No step      *)
(* taken while a system is being invoked changes the resources; the        *)
(* resources change only in a step that drains the queues of one system,   *)
(* and then they become what writing the queued commands one after the     *)
(* other, first queued first, makes of them; a step that takes a command   *)
(* out of a queue empties the queues of that system, so that applying      *)
(* again without a new invocation changes nothing.                         *)
(***************************************************************************)
\* the commands a system has queued, in the order of its parameters and then
\* in the order they were queued
Pending(s) ==
    LET cat[i \in 0 .. Len(param_state[s])] ==
            IF i = 0 THEN << >> ELSE cat[i - 1] \o param_state[s][i].queue
    IN  cat[Len(param_state[s])]

RECURSIVE InOrder(_, _)
InOrder(queue, res) ==
    IF queue = << >> THEN res
    ELSE InOrder(Tail(queue), Command_write(Head(queue), res, world_tick))

C20_CommandsDeferred ==
    [][/\ resources' # resources
            => /\ \A t \in Systems : ~ Active(t)
               /\ \E s \in Systems :
                    /\ Pending(s) # << >>
                    /\ Pending(s)' = << >>
                    /\ resources' = InOrder(Pending(s), resources)
       /\ \A s \in Systems :
            Len(Pending(s)') < Len(Pending(s))
                => /\ Pending(s)' = << >>
                   /\ resources' = InOrder(Pending(s), resources)]_vars

\* the queue of the first system was applied and left a resource in the World
\* while the commands the second system queued are still pending
C20_Witness ==
    /\ \A t \in Systems : phase[t] = "idle"
    /\ resources[1].present
    /\ CommandsPositions(Built) # {}
    /\ Pending(Built) = << >>
    /\ \E t \in Systems \ {Built} : Pending(t) = << Command("remove_resource", 1) >>

(***************************************************************************)
(* C21.  apply never runs while a system is fetching its parameters or     *)
(* holds a handle: a step that takes commands out of a queue or changes    *)
(* the resources is taken only when every system of the stage has          *)
(* finished, with no handle of the World live.                             *)
(***************************************************************************)
C21_ApplyExclusive ==
    [][(\/ resources' # resources
        \/ \E s \in Systems : Len(Pending(s)') < Len(Pending(s)))
          => \A t \in Systems :
                /\ ~ Active(t)
                /\ handles[t] = {}
                /\ ~ Active(t)'
                /\ handles'[t] = {}]_vars

\* a system holds a handle of a resource that an earlier apply inserted,
\* while the commands another system queues wait for the end of the stage
C21_Witness ==
    \E t \in Systems :
        /\ phase[t] = "running"
        /\ handles[t] # {}
        /\ resources[1].present
        /\ phase[Built] = "running"
        /\ Pending(Built) # << >>

(***************************************************************************)
(* C22.  The conflict check and the registration of access happen at build *)
(* time only.  A built system holds one State per parameter, and no step   *)
(* of an invocation, over any number of invocations, changes its           *)
(* parameters, its component-keyed or storage-keyed footprint or its       *)
(* non-send mark, or makes its build fail.                                 *)
(***************************************************************************)
Footprint(meta) ==
    << meta.component_access_set, meta.archetype_component_access, meta.is_send >>

C22_RegistrationAtBuildOnly ==
    [][\A s \in Systems :
          status[s] = "built"
              => /\ Len(param_state[s]) = Len(params[s])
                 /\ Footprint(system_meta[s])' = Footprint(system_meta[s])
                 /\ params'[s] = params[s]
                 /\ status'[s] = "built"
                 /\ diagnostic'[s] = diagnostic[s]]_vars

\* a second invocation has fetched a mutable handle of a system that also
\* declares a non-send parameter or a query
C22_Witness ==
    /\ phase[Built] = "running"
    /\ system_meta[Built].last_change_tick = world_tick
    /\ \E i \in DOMAIN items[Built] :
         /\ items[Built][i].some
         /\ items[Built][i].mutable
    /\ \E i \in DOMAIN params[Built] :
         params[Built][i].kind \in {"NonSend", "NonSendMut", "Query"}

(***************************************************************************)
(* C23.  The tuple calls init_state of its members from left to right      *)
(* against one accumulator and keeps their States by position: the State   *)
(* at position i is the one init_state of member i made from the           *)
(* accumulator the members before it left, the first member that fails is  *)
(* the last one called, and get_param gives member i the State at          *)
(* position i.  The empty tuple registers no access and has no State.      *)
(***************************************************************************)
\* the accumulator after the first k members registered, from the left
RECURSIVE MetaAfter(_, _)
MetaAfter(ps, k) ==
    IF k = 0 THEN SystemMeta_new("system")
    ELSE init_state(ps[k], archetypes, MetaAfter(ps, k - 1)).meta

C23_TupleInOrder ==
    LET ps == params[Built]
        n == Len(param_state[Built])
    IN  /\ \A i \in 1 .. n :
              param_state[Built][i] =
                  init_state(ps[i], archetypes, MetaAfter(ps, i - 1)).state
        /\ status[Built] # "panicked"
              => /\ n = Len(ps)
                 /\ Footprint(system_meta[Built]) = Footprint(MetaAfter(ps, n))
        /\ status[Built] = "panicked"
              => /\ n = Len(ps) - 1
                 /\ init_state(ps[n + 1], archetypes, MetaAfter(ps, n)).panicked
                 /\ diagnostic[Built] =
                        init_state(ps[n + 1], archetypes, MetaAfter(ps, n)).error
        /\ \A i \in 1 .. fetched[Built] :
              /\ items[Built][i].id =
                     IF ps[i].kind = "Local" THEN param_state[Built][i].value
                     ELSE ps[i].id
              /\ items[Built][i].kind = ps[i].kind
        /\ ps = << >>
              => /\ param_state[Built] = << >>
                 /\ Footprint(system_meta[Built])
                        = Footprint(SystemMeta_new("system"))

\* a system of a read of the second resource, a Local and a write of the
\* first resource has fetched its three parameters
C23_Witness ==
    /\ params[Built] = << Param("Res", 2), Param("Local", 0), Param("ResMut", 1) >>
    /\ phase[Built] = "running"
    /\ fetched[Built] = 3
    /\ items[Built][1].id = 2
    /\ items[Built][3].id = 1
    /\ items[Built][3].mutable

(***************************************************************************)
(* C24.  The record of removed components is read-only for the parameters: *)
(* no step taken while a system is being invoked changes it, and every     *)
(* iteration of a RemovedComponents item, by any system and any number of  *)
(* times, yields the record of its component as it stands and leaves it    *)
(* as it is.                                                               *)
(***************************************************************************)
C24_RemovedReadOnly ==
    [][/\ (\E s \in Systems : Active(s)) => removed' = removed
       /\ \A s \in Systems, i \in 1 .. MaxRunParams :
            (/\ i \in DOMAIN items[s]
             /\ i \in DOMAIN items'[s]
             /\ items[s][i].kind = "RemovedComponents"
             /\ phase[s] = "running"
             /\ items'[s][i] # items[s][i])
                => /\ items'[s][i].entities = removed[items[s][i].id]
                   /\ removed' = removed]_vars

\* two running systems have each iterated the record of the same component
\* and got the same two entities, which the record still holds
C24_Witness ==
    /\ Len(removed[CompC]) = 2
    /\ \A s \in Systems :
         /\ phase[s] = "running"
         /\ \E i \in DOMAIN items[s] :
              /\ items[s][i].id = CompC
              /\ items[s][i].entities = removed[CompC]

(***************************************************************************)
(* C25.  The component-keyed and the storage-keyed footprint of a system   *)
(* are extended in lockstep: after the registrations of a built system and *)
(* any number of new_archetype calls, a resource is recorded as read       *)
(* (written) in component_access_set exactly when its storage location is  *)
(* recorded as read (written) in archetype_component_access.               *)
(***************************************************************************)
C25_FootprintsInLockstep ==
    LET fine == combined_access(system_meta[Built].component_access_set)
        coarse == system_meta[Built].archetype_component_access
    IN  \A id \in ResourceIds :
            /\ has_read(fine, id)
                  <=> has_read(coarse, get_resource_archetype_component_id(id))
            /\ has_write(fine, id)
                  <=> has_write(coarse, get_resource_archetype_component_id(id))

\* a system of a resource read and of a query that new_archetype extended to
\* the second archetype
C25_Witness ==
    /\ \E i \in DOMAIN params[Built] : params[Built][i] = Param("Res", 1)
    /\ \E i \in DOMAIN params[Built] :
         /\ params[Built][i].kind = "Query"
         /\ 2 \in param_state[Built][i].matched
    /\ has_read(system_meta[Built].archetype_component_access, << 2, CompC >>)

(***************************************************************************)
(* C26.  new_archetype is idempotent on the footprint: for every built     *)
(* system and every archetype, a second new_archetype with the archetype   *)
(* leaves archetype_component_access, and the States, as the first call    *)
(* left them.                                                              *)
(***************************************************************************)
C26_NewArchetypeIdempotent ==
    \A a \in archetypes :
        LET once == tuple_new_archetype(params[Built], param_state[Built], 1, a,
                                        system_meta[Built])
            twice == tuple_new_archetype(params[Built], once.state, 1, a,
                                         once.meta)
        IN  /\ twice.meta.archetype_component_access
                   = once.meta.archetype_component_access
            /\ twice.state = once.state

\* new_archetype was called with the second archetype, which a writing
\* query of the system matches: its storage locations are in the footprint
C26_Witness ==
    /\ archetypes = {1, 2}
    /\ \E i \in DOMAIN params[Built] :
         /\ params[Built][i].kind = "Query"
         /\ QueryTypes[params[Built][i].id].writes # {}
         /\ 2 \in param_state[Built][i].matched
    /\ has_write(system_meta[Built].archetype_component_access, << 2, CompC >>)

(***************************************************************************)
(* C27.  Compatibility of footprints is symmetric and is what its          *)
(* definition says: for the footprints A and B of any two built systems,   *)
(* component-keyed or storage-keyed, A.is_compatible(B) equals             *)
(* B.is_compatible(A), and both hold exactly when no slot is written by    *)
(* one side and read or written by the other.                              *)
(***************************************************************************)
\* a footprint touches a slot when it reads everything or records the slot
Touches(a, slot) == a.reads_all \/ slot \in a.reads_and_writes

Writes(a, slot) == slot \in a.writes

SlotsOf(a, b) == a.reads_and_writes \cup b.reads_and_writes

NoSlotConflict(a, b) ==
    \A slot \in SlotsOf(a, b) :
        /\ ~ (Writes(a, slot) /\ Touches(b, slot))
        /\ ~ (Writes(b, slot) /\ Touches(a, slot))

Coarse(s) == system_meta[s].archetype_component_access

Fine(s) == combined_access(system_meta[s].component_access_set)

SymmetricAndDefined(a, b) ==
    /\ is_compatible(a, b) = is_compatible(b, a)
    /\ is_compatible(a, b) = NoSlotConflict(a, b)

C27_CompatibilitySymmetric ==
    \A s \in Systems, t \in Systems :
        /\ SymmetricAndDefined(Coarse(s), Coarse(t))
        /\ SymmetricAndDefined(Fine(s), Fine(t))

\* a system whose footprint reads everything and writes a resource runs, and
\* a system that only reads that resource was not started beside it
C27_Witness ==
    \E s \in Systems, t \in Systems :
        /\ system_meta[s].archetype_component_access.reads_all
        /\ system_meta[s].archetype_component_access.writes # {}
        /\ system_meta[t].archetype_component_access.writes = {}
        /\ ~ system_meta[t].archetype_component_access.reads_all
        /\ system_meta[t].archetype_component_access.reads_and_writes # {}
        /\ phase[s] = "running"
        /\ phase[t] = "idle"
        /\ system_meta[t].last_change_tick = world_tick

(***************************************************************************)
(* C28.  The change ticks of a system advance with each run: a run takes   *)
(* the change tick of the World as its change_tick, the SystemChangeTick   *)
(* it fetches reports that change_tick and the last_change_tick of the     *)
(* system, and when the run ends the last_change_tick of the system        *)
(* becomes the change_tick the run reported, which is what the next run    *)
(* reports as last_change_tick.                                            *)
(***************************************************************************)
ChangeTickItems(s) ==
    { i \in DOMAIN items[s] : items[s][i].kind = "SystemChangeTick" }

C28_SystemTicksAdvance ==
    [][\A s \in Systems :
          /\ (phase[s] = "idle" /\ phase'[s] # "idle")
                => run_tick'[s] = world_tick
          /\ \A i \in ChangeTickItems(s)' :
                /\ items'[s][i].change_tick = run_tick'[s]
                /\ items'[s][i].last_change_tick = system_meta'[s].last_change_tick
          /\ (phase[s] = "running" /\ phase'[s] = "idle")
                => \A i \in ChangeTickItems(s) :
                      system_meta'[s].last_change_tick = items[s][i].change_tick]_vars

\* a later run, after the World tick advanced, reports the tick of the
\* previous run as last_change_tick and the tick of the World as change_tick
C28_Witness ==
    \E i \in ChangeTickItems(Built) :
        /\ items[Built][i].change_tick = world_tick
        /\ items[Built][i].last_change_tick = wrapping_sub(world_tick, 2)
        /\ world_tick = 1

(***************************************************************************)
(* Arcs of a GizmoBuffer (bevy_gizmos/src/arcs.rs).                        *)
(*                                                                         *)
(* Angles are exact multiples of one AngleUnits-th of a full turn, so TAU  *)
(* is AngleUnits of them; f32 rounding is not modelled.  The points `from` *)
(* and `to` of the *_between methods are modelled by their direction seen  *)
(* from `center`, counted counterclockwise from Vec2::Y, and are distinct  *)
(* from `center`.  Radius, colour and isometry pass unchanged from the     *)
(* call to the line strip and are left out.  A builder holds the `&mut`    *)
(* borrow of the buffer, so at most one builder is alive at a time.        *)
(***************************************************************************)
AngleUnits == 8
MaxResolution == 3
MaxStrips == 2

TAU == AngleUnits

DEFAULT_CIRCLE_RESOLUTION == 32

Abs(x) == IF x < 0 THEN -x ELSE x

Directions == 0 .. (TAU - 1)

\* the arc_angle arguments of arc_2d and arc_3d: up to more than a full
\* turn in both directions
ArcAngles == (-(TAU + 1)) .. (TAU + 1)

NoResolution == [value |-> 0, some |-> FALSE]

\* helper function for getting a default value for the resolution
\* parameter: ((|angle| / TAU) * DEFAULT_CIRCLE_RESOLUTION).ceil()
resolution_from_angle(angle) ==
    (Abs(angle) * DEFAULT_CIRCLE_RESOLUTION + TAU - 1) \div TAU

\* Vec2::angle_to: the signed angle from direction a to direction b, in
\* (-TAU/2, TAU/2]
angle_to(a, b) ==
    LET d == (b - a) % TAU
    IN  IF 2 * d > TAU THEN d - TAU ELSE d

\* Quat::from_rotation_arc(a, b).to_axis_angle(): the unsigned angle
\* between the directions, in [0, TAU/2], about the axis `up`
to_axis_angle(a, b) ==
    [angle |-> Abs(angle_to(a, b)), up |-> IF angle_to(a, b) < 0 THEN -1 ELSE 1]

clamp(x, lo, hi) ==
    IF x < lo THEN lo ELSE IF x > hi THEN hi ELSE x

\* the positions of arc_2d_inner, each the angle swept from Vec2::Y
\* (FRAC_PI_2) as the fraction << numerator, denominator >>:
\* arc_angle * n / resolution for n in 0 ..= resolution
arc_2d_inner(arc_angle, resolution) ==
    [n \in 1 .. (resolution + 1) |-> << arc_angle * (n - 1), resolution >>]

\* the positions of arc_3d_inner, each the angle swept from start_vertex
\* about Vec3::Y: the angle is clamped to one full turn first
arc_3d_inner(angle, resolution) ==
    LET clamped == clamp(angle, -TAU, TAU)
    IN  [n \in 1 .. (resolution + 1) |-> << clamped * (n - 1), resolution >>]

Arc2dBuilder(c, rot, angle) ==
    [kind |-> "Arc2dBuilder", arc_angle |-> angle, resolution |-> NoResolution,
     call |-> c, rotation |-> rot]

Arc3dBuilder(c, start, axis, angle) ==
    [kind |-> "Arc3dBuilder", up |-> axis, arc_angle |-> angle,
     resolution |-> NoResolution, call |-> c, start_vertex |-> start]

\* a call of a method of the buffer that returns a builder; `call` keeps
\* the method and its arguments for the properties
BuilderCall(builder) ==
    /\ gizmos.builder = NoBuilder
    /\ gizmos.strips < MaxStrips
    /\ gizmos' = [gizmos EXCEPT !.builder = builder]
    /\ UNCHANGED << worldVars, buildVars, runVars >>

arc_2d ==
    \E angle \in ArcAngles :
        BuilderCall(Arc2dBuilder(<< "arc_2d", angle >>, 0, angle))

\* angle_fn is the identity for short_arc_2d_between and
\* |angle| angle - TAU for long_arc_2d_between
arc_2d_from_to(op, from, to) ==
    LET from_rotation == angle_to(0, from)
        arc_angle_raw == angle_to(from, to)
    IN  Arc2dBuilder(<< op, from, to >>, from_rotation,
                     IF op = "short_arc_2d_between" THEN arc_angle_raw
                     ELSE arc_angle_raw - TAU)

short_arc_2d_between ==
    \E from \in Directions, to \in Directions :
        BuilderCall(arc_2d_from_to("short_arc_2d_between", from, to))

long_arc_2d_between ==
    \E from \in Directions, to \in Directions :
        BuilderCall(arc_2d_from_to("long_arc_2d_between", from, to))

arc_3d ==
    \E angle \in ArcAngles :
        BuilderCall(Arc3dBuilder(<< "arc_3d", angle >>, "X", 1, angle))

\* angle_fn is the identity for short_arc_3d_between; for
\* long_arc_3d_between it is TAU - angle, -TAU - angle or 0.0
arc_from_to(op, from, to) ==
    LET aa  == to_axis_angle(from, to)
        raw == aa.angle
        fn  == IF op = "short_arc_3d_between" THEN raw
               ELSE IF raw > 0 THEN TAU - raw
               ELSE IF raw < 0 THEN (-TAU) - raw
               ELSE 0
    IN  Arc3dBuilder(<< op, from, to >>, from, aa.up, fn)

short_arc_3d_between ==
    \E from \in Directions, to \in Directions :
        BuilderCall(arc_from_to("short_arc_3d_between", from, to))

long_arc_3d_between ==
    \E from \in Directions, to \in Directions :
        BuilderCall(arc_from_to("long_arc_3d_between", from, to))

\* Arc2dBuilder::resolution and Arc3dBuilder::resolution
resolution ==
    \E r \in 0 .. MaxResolution :
        /\ gizmos.builder # NoBuilder
        /\ gizmos' = [gizmos EXCEPT
                         !.builder = [@ EXCEPT
                            !.resolution = [value |-> r, some |-> TRUE]]]
        /\ UNCHANGED << worldVars, buildVars, runVars >>

\* the line strip a builder hands to linestrip_2d / linestrip
Positions(builder) ==
    LET res == IF builder.resolution.some THEN builder.resolution.value
               ELSE resolution_from_angle(builder.arc_angle)
    IN  IF builder.kind = "Arc2dBuilder"
        THEN arc_2d_inner(builder.arc_angle, res)
        ELSE arc_3d_inner(builder.arc_angle, res)

\* a Drop that does not look at gizmos.enabled
Drop_draws_when_disabled ==
    /\ gizmos.builder # NoBuilder
    /\ gizmos' = [gizmos EXCEPT
                     !.builder = NoBuilder,
                     !.strips = @ + 1,
                     !.last = [kind |-> "linestrip",
                               positions |-> Positions(gizmos.builder)]]
    /\ UNCHANGED << worldVars, buildVars, runVars >>

\* Drop for Arc2dBuilder and for Arc3dBuilder
Drop ==
    /\ gizmos.builder # NoBuilder
    /\ gizmos' =
          IF ~ gizmos.enabled
          THEN [gizmos EXCEPT !.builder = NoBuilder]
          ELSE [gizmos EXCEPT
                   !.builder = NoBuilder,
                   !.strips = @ + 1,
                   !.last = [kind |-> "linestrip",
                             positions |-> Positions(gizmos.builder)]]
    /\ UNCHANGED << worldVars, buildVars, runVars >>

InitArcs ==
    /\ InitWorld
    /\ InitIdle
    /\ gizmos \in { GizmoBuffer(enabled) : enabled \in BOOLEAN }
    /\ params = [s \in Systems |-> << >>]
    /\ system_meta = [s \in Systems |-> SystemMeta_new("system")]
    /\ param_state = [s \in Systems |-> << >>]
    /\ status = [s \in Systems |-> "building"]
    /\ diagnostic = [s \in Systems |-> NoDiagnostic]

NextArcs ==
    \/ arc_2d
    \/ short_arc_2d_between
    \/ long_arc_2d_between
    \/ arc_3d
    \/ short_arc_3d_between
    \/ long_arc_3d_between
    \/ resolution
    \/ Drop

SpecArcs == InitArcs /\ [][NextArcs]_vars

\* the segments of a line strip: one less than its positions
Segments(strip) == Len(strip.positions) - 1

(***************************************************************************)
(* C29.  An arc built without calling resolution() is drawn with 32 line   *)
(* segments by default, for every arc angle: the line strip that the drop  *)
(* of such a builder emits has DEFAULT_CIRCLE_RESOLUTION segments.         *)
(***************************************************************************)
C29_DefaultResolution ==
    [][(/\ gizmos.builder # NoBuilder
        /\ gizmos'.builder = NoBuilder
        /\ gizmos.enabled
        /\ ~ gizmos.builder.resolution.some)
          => Segments(gizmos'.last) = DEFAULT_CIRCLE_RESOLUTION]_vars

(***************************************************************************)
(* C30.  long_arc_2d_between draws the longest of the two arcs between     *)
(* from and to: with s the signed angle short_arc_2d_between uses for the  *)
(* same points, the arc angle of its builder has magnitude TAU - |s|, so   *)
(* never more than a full turn, and turns in the direction opposite to s.  *)
(***************************************************************************)
C30_LongArc2dIsComplement ==
    (gizmos.builder # NoBuilder
        /\ gizmos.builder.call[1] = "long_arc_2d_between")
        => LET s == arc_2d_from_to("short_arc_2d_between",
                                   gizmos.builder.call[2],
                                   gizmos.builder.call[3]).arc_angle
               a == gizmos.builder.arc_angle
           IN  /\ Abs(a) = TAU - Abs(s)
               /\ Abs(a) <= TAU
               /\ (s > 0 => a < 0)
               /\ (s < 0 => a > 0)

(***************************************************************************)
(* C31.  A failed registration is atomic: when init_state of a Res,        *)
(* ResMut, NonSend, NonSendMut, Query or &World fails with an access       *)
(* conflict, the failing call has changed neither footprint nor the        *)
(* non-send mark of the system.                                            *)
(***************************************************************************)
AtomicKinds == {"Res", "ResMut", "NonSend", "NonSendMut", "Query", "World"}

\* the step is a call of init_state of one of the kinds that fails
FailsAt(s, kinds) ==
    /\ status[s] = "building"
    /\ status'[s] = "panicked"
    /\ params'[s][Len(params'[s])].kind \in kinds

C31_FailedRegistrationAtomic ==
    [][\A s \in Systems :
          FailsAt(s, AtomicKinds)
              => Footprint(system_meta[s])' = Footprint(system_meta[s])]_vars

\* C31, as the code has it: a failing init_state never changes the
\* component-keyed footprint; a failing Res, ResMut or Query changes nothing;
\* a failing NonSend or NonSendMut has marked the system non-send and
\* changed nothing else; a failing &World has changed nothing but the
\* storage-keyed footprint, which it left as it was or extended by read_all.
C31_FailedRegistrationEffect ==
    [][\A s \in Systems :
          FailsAt(s, AtomicKinds)
              => /\ system_meta'[s].component_access_set
                        = system_meta[s].component_access_set
                 /\ FailsAt(s, {"Res", "ResMut", "Query"})
                        => Footprint(system_meta[s])' = Footprint(system_meta[s])
                 /\ FailsAt(s, {"NonSend", "NonSendMut"})
                        => /\ system_meta'[s].archetype_component_access
                                  = system_meta[s].archetype_component_access
                           /\ ~ system_meta'[s].is_send
                 /\ FailsAt(s, {"World"})
                        => /\ system_meta'[s].is_send = system_meta[s].is_send
                           /\ system_meta'[s].archetype_component_access \in
                                 { system_meta[s].archetype_component_access,
                                   extend(system_meta[s].archetype_component_access,
                                          read_all(Access_default)) }]_vars

\* a &World failed at its second check, after it extended the storage-keyed
\* footprint: the only parameter before it is a Query that writes a
\* component of no archetype
C31_Witness ==
    /\ status[Built] = "panicked"
    /\ Len(params[Built]) = 2
    /\ params[Built][1].kind = "Query"
    /\ params[Built][2].kind = "World"
    /\ system_meta[Built].archetype_component_access.reads_all
    /\ ~ combined_access(system_meta[Built].component_access_set).reads_all

(***************************************************************************)
(* C32.  An Option variant of a resource handle registers as the handle    *)
(* it wraps: on every accumulator a build reaches, init_state of           *)
(* Option<H<T>> and of H<T> either both fail, or leave the same SystemMeta *)
(* and return the same State.                                              *)
(***************************************************************************)
OptionOf ==
    { << "OptionRes", "Res" >>, << "OptionResMut", "ResMut" >>,
      << "OptionNonSend", "NonSend" >>, << "OptionNonSendMut", "NonSendMut" >> }

C32_OptionRegistersAsHandle ==
    \A s \in Systems : \A id \in ResourceIds : \A pair \in OptionOf :
        LET option == init_state(Param(pair[1], id), archetypes, system_meta[s])
            handle == init_state(Param(pair[2], id), archetypes, system_meta[s])
        IN  /\ option.panicked = handle.panicked
            /\ ~ option.panicked
                  => /\ option.meta = handle.meta
                     /\ option.state = handle.state

\* an Option<ResMut> is registered, after which an Option<Res> and a Res of
\* the same resource both fail, and an Option<NonSend> of the other
\* resource registers as a NonSend does, marking the system
C32_Witness ==
    /\ status[Built] = "building"
    /\ \E i \in DOMAIN params[Built] : \E id \in ResourceIds : \E other \in ResourceIds :
          /\ params[Built][i] = Param("OptionResMut", id)
          /\ init_state(Param("OptionRes", id), archetypes,
                        system_meta[Built]).panicked
          /\ other # id
          /\ system_meta[Built].is_send
          /\ ~ init_state(Param("OptionNonSend", other), archetypes,
                          system_meta[Built]).meta.is_send

(***************************************************************************)
(* StaticSystemParam.  One built system whose parameters are               *)
(* StaticSystemParam wrappers (and a bare Commands) is invoked repeatedly, *)
(* queues commands, has its buffers applied and is told of new archetypes, *)
(* while resources come and go.                                            *)
(***************************************************************************)
StaticParams ==
    { StaticOf(p) : p \in { Param("ResMut", 1), Param("Commands", 0),
                            Param("Query", 4) } }
    \cup { Param("Commands", 0) }

InitStatic ==
    /\ InitWorld
    /\ InitIdle
    /\ InitGizmos
    /\ InitBuilt({ [s \in Systems |-> IF s = Built THEN ps ELSE << >>] :
                   ps \in BuiltLists(StaticParams, MaxRunParams, {1}) })

NextStatic ==
    \/ InsertResource
    \/ RemoveResource
    \/ AddArchetype
    \/ NewArchetype(Built)
    \/ BeginRun(Built)
    \/ GetParamStatic(Built)
    \/ GetParamCommands(Built)
    \/ PushCommand(Built)
    \/ EndRun(Built)
    \/ ApplyBuffers(Built)

SpecStatic == InitStatic /\ [][NextStatic]_vars

(***************************************************************************)
(* C33.  StaticSystemParam<P> behaves as P: on every accumulator init_state *)
(* of the wrapper and of P fail together or leave the same SystemMeta and  *)
(* State; on every State and World reached, new_archetype and apply of the *)
(* wrapper have the effect of those of P, get_param fails when that of P   *)
(* fails and otherwise yields the item of P, wrapped, with the same        *)
(* borrows; and the wrapper is read-only exactly when P is.                *)
(***************************************************************************)
C33_StaticBehavesAsInner ==
    LET s == Built IN
        /\ \A p \in BareParams \cup ParamSets :
              /\ init_state(StaticOf(p), archetypes, system_meta[s])
                    = init_state(p, archetypes, system_meta[s])
              /\ ReadOnlySystemParam(StaticOf(p)) = ReadOnlySystemParam(p)
        /\ \A i \in DOMAIN params[s] :
              params[s][i].kind = "Static"
                  => LET static == params[s][i]
                         p == static.members[1]
                         state == param_state[s][i]
                         wrapped == get_param(static, state, system_meta[s],
                                              resources, run_tick[s])
                         plain == get_param(p, state, system_meta[s], resources,
                                            run_tick[s])
                     IN  /\ \A a \in ArchetypeIds :
                               new_archetype(static, state, a, system_meta[s])
                                   = new_archetype(p, state, a, system_meta[s])
                         /\ apply(static, state, system_meta[s], resources, world_tick)
                               = apply(p, state, system_meta[s], resources, world_tick)
                         /\ wrapped.panicked = plain.panicked
                         /\ ~ plain.panicked
                               => /\ wrapped.item = StaticSystemParam(plain.item)
                                  /\ wrapped.borrows = plain.borrows

\* the system holds the wrapped item of a ResMut while a command waits in
\* the queue of its wrapped Commands
C33_Witness ==
    /\ \E i \in DOMAIN items[Built] :
          /\ items[Built][i].kind = "Static"
          /\ items[Built][i].inner.kind = "ResMut"
    /\ \E j \in DOMAIN params[Built] :
          /\ params[Built][j] = StaticOf(Param("Commands", 0))
          /\ Len(param_state[Built][j].queue) > 0

(***************************************************************************)
(* The build of one system from parameters that declare no access and      *)
(* parameters that do.                                                     *)
(***************************************************************************)
NoAccessKinds ==
    {"Commands", "Local", "RemovedComponents", "Archetypes", "Components",
     "Entities", "Bundles", "SystemChangeTick", "SystemName"}

NoAccessUniverse ==
    { Param(k, 0) : k \in NoAccessKinds \ {"RemovedComponents"} }
    \cup { Param("RemovedComponents", CompC) }

RegisterNoAccess(s) == \E p \in NoAccessUniverse : Register(s, p)

NextNoAccess ==
    \/ RegisterNoAccess(Built)
    \/ RegisterRes(Built)
    \/ RegisterResMut(Built)
    \/ RegisterNonSendMut(Built)
    \/ RegisterQuery(Built)
    \/ RegisterWorld(Built)
    \/ FinishBuild(Built)

SpecNoAccess == Init /\ [][NextNoAccess]_vars

(***************************************************************************)
(* C34.  Parameters that declare no access (Commands, Local,               *)
(* RemovedComponents, &Archetypes, &Components, &Entities, &Bundles,       *)
(* SystemChangeTick, SystemName) count for nothing in the access check:    *)
(* registering one never fails and leaves both footprints and the non-send *)
(* mark as they were, and a build fails, with the same diagnostic, and     *)
(* accumulates the same footprints and mark, as the build of the same      *)
(* parameters without the no-access ones, wherever they stand.             *)
(***************************************************************************)
DeclaresAccess(p) == p.kind \notin NoAccessKinds

C34_NoAccessIsNeutral ==
    \A s \in Systems :
        LET others == Build(SelectSeq(params[s], DeclaresAccess), archetypes)
        IN  /\ (status[s] = "panicked") = others.panicked
            /\ diagnostic[s] = others.error
            /\ Footprint(system_meta[s]) = Footprint(others.meta)
            /\ status[s] = "panicked" => DeclaresAccess(LastParam(s))

\* a Res fails on the ResMut declared two places before it, with a
\* no-access parameter between them
C34_Witness ==
    /\ status[Built] = "panicked"
    /\ Len(params[Built]) = 3
    /\ params[Built][1].kind = "ResMut"
    /\ ~ DeclaresAccess(params[Built][2])
    /\ params[Built][3].kind = "Res"

(***************************************************************************)
(* The two conflict queries on the footprints of a system under            *)
(* construction.                                                           *)
(***************************************************************************)
QueriesAgree(a, b) == is_compatible(a, b) <=> (get_conflicts(a, b) = {})

\* the component-keyed footprints the checks of a registration compare:
\* the combined access of the system, the access of each parameter
\* recorded in the set, and the access a &World asks for
FootprintsOf(s) ==
    { Fine(s), read_all(Access_default) }
    \cup { f.access : f \in system_meta[s].component_access_set.filtered_accesses }

\* the storage-keyed ones: the accumulator of the system and the access a
\* &World asks for
StorageFootprintsOf(s) ==
    { Coarse(s), read_all(Access_default) }

AgreeOn(s) ==
    /\ \A a \in FootprintsOf(s), b \in FootprintsOf(s) : QueriesAgree(a, b)
    /\ \A a \in StorageFootprintsOf(s), b \in StorageFootprintsOf(s) :
          QueriesAgree(a, b)

\* the first check of <&World>::init_state: the storage-keyed footprint
\* accepts a read of everything
StorageCheckAccepts(s) ==
    is_compatible(Coarse(s), read_all(Access_default))

\* the second check of <&World>::init_state: the component-keyed set has no
\* conflict with a read of everything
ComponentCheckAccepts(s) ==
    get_conflicts_single(system_meta[s].component_access_set,
                         FilteredAccess_read_all(FilteredAccess_default)) = {}

(***************************************************************************)
(* C35 as stated: the two conflict queries agree on every pair of          *)
(* footprints, and the storage-keyed check and the component-keyed check   *)
(* of a &World registration give the same verdict.                         *)
(***************************************************************************)
C35_WorldChecksSameVerdict ==
    \A s \in Systems :
        /\ AgreeOn(s)
        /\ status[s] = "building"
              => (StorageCheckAccepts(s) <=> ComponentCheckAccepts(s))

(***************************************************************************)
(* C35 amended: on every pair of footprints A and B, A.is_compatible(B)    *)
(* is true if and only if A.get_conflicts(B) is empty, and on the          *)
(* component-keyed footprint of a system the conflicts of the set with a   *)
(* read of everything are empty if and only if the combined access is      *)
(* compatible with it.  The two checks of a &World registration look at    *)
(* different footprints: when the storage-keyed check rejects, the         *)
(* component-keyed check rejects as well, but not the other way round.     *)
(***************************************************************************)
C35_ConflictQueriesAgree ==
    \A s \in Systems :
        /\ AgreeOn(s)
        /\ ComponentCheckAccepts(s)
              <=> is_compatible(Fine(s), read_all(Access_default))
        /\ status[s] = "building"
              => (~ StorageCheckAccepts(s) => ~ ComponentCheckAccepts(s))

\* a system of one writing query that matches no archetype: its
\* storage-keyed footprint is empty and accepts a &World, its
\* component-keyed footprint writes the component and rejects it
C35_Witness ==
    /\ status[Built] = "building"
    /\ Len(params[Built]) = 1
    /\ params[Built][1].kind = "Query"
    /\ Fine(Built).writes # {}
    /\ StorageCheckAccepts(Built)
    /\ ~ ComponentCheckAccepts(Built)
    /\ get_conflicts(Fine(Built), read_all(Access_default)) = {CompC}

(***************************************************************************)
(* C36.  new_archetype extends only the storage-keyed footprint: a step of *)
(* a built system that is told of an archetype leaves the component-keyed  *)
(* footprint, the non-send mark, the parameters and the outcome of the     *)
(* build as they were (and the build of the same parameters against the    *)
(* grown World still succeeds), takes nothing out of the storage-keyed     *)
(* footprint, and changes the State of Query parameters only; for a        *)
(* resource handle, a &World and every other non-query parameter,          *)
(* new_archetype returns the State and the SystemMeta it was given.        *)
(***************************************************************************)
NonQueryPositions(s) ==
    { i \in DOMAIN params[s] : params[s][i].kind # "Query" }

C36_NewArchetypeFrame ==
    [][\A s \in Systems :
          /\ system_meta'[s].component_access_set
                = system_meta[s].component_access_set
          /\ system_meta'[s].is_send = system_meta[s].is_send
          /\ params'[s] = params[s]
          /\ status'[s] = status[s]
          /\ diagnostic'[s] = diagnostic[s]
          /\ status'[s] = "built" => ~ Build(params'[s], archetypes').panicked
          /\ extend(Coarse(s)', Coarse(s)) = Coarse(s)'
          /\ \A i \in NonQueryPositions(s) :
                /\ param_state'[s][i] = param_state[s][i]
                /\ \A a \in archetypes :
                      new_archetype(params[s][i], param_state[s][i], a,
                                    system_meta[s])
                          = Extended(param_state[s][i], system_meta[s])
          /\ NonQueryPositions(s) = DOMAIN params[s]
                => system_meta'[s] = system_meta[s]]_vars

\* a system of a NonSendMut and a writing query was told of the second
\* archetype: the query matches it and its storage is in the footprint
C36_Witness ==
    /\ status[Built] = "built"
    /\ archetypes = {1, 2}
    /\ ~ system_meta[Built].is_send
    /\ \E i \in DOMAIN params[Built] : params[Built][i] = Param("NonSendMut", 2)
    /\ \E j \in DOMAIN params[Built] :
         /\ params[Built][j].kind = "Query"
         /\ 2 \in param_state[Built][j].matched
    /\ has_write(Coarse(Built), << 2, CompC >>)
    /\ has_write(Fine(Built), CompC)

(***************************************************************************)
(* C37.  The apply of a tuple flushes its members from left to right, each *)
(* once: a step that applies the buffers of a system writes to the World   *)
(* the commands queued through its first Commands, from the first queued   *)
(* to the last, then those of its second Commands, and so on, leaves every *)
(* queue empty, and leaves the State of the members that defer nothing as  *)
(* it was; the apply of such a member changes neither its State nor the    *)
(* World.                                                                  *)
(***************************************************************************)
\* the commands queued through the members at positions i and after, in
\* declaration order
RECURSIVE QueuedFrom(_, _)
QueuedFrom(s, i) ==
    IF i > Len(param_state[s]) THEN << >>
    ELSE (IF i \in CommandsPositions(s) THEN param_state[s][i].queue ELSE << >>)
         \o QueuedFrom(s, i + 1)

\* the step took commands out of a queue of the system
Flushes(s) ==
    \E i \in CommandsPositions(s) :
        Len(param_state'[s][i].queue) < Len(param_state[s][i].queue)

C37_TupleApplyInOrder ==
    [][\A s \in Systems :
          Flushes(s) =>
              /\ resources' = CommandQueue_write(QueuedFrom(s, 1), 1, resources,
                                                 world_tick)
              /\ \A i \in DOMAIN params[s] :
                    IF i \in CommandsPositions(s)
                    THEN param_state'[s][i].queue = << >>
                    ELSE /\ param_state'[s][i] = param_state[s][i]
                         /\ apply(params[s][i], param_state[s][i], system_meta[s],
                                  resources, world_tick)
                                = Applied(param_state[s][i], resources)]_vars

\* the buffers of a system of two Commands were applied before (the
\* resource is in the World), and the system has queued a removal through
\* its first Commands and an insertion through its second
C37_Witness ==
    /\ params[Built] = << Param("Commands", 0), Param("Commands", 0) >>
    /\ phase[Built] = "idle"
    /\ resources[1].present
    /\ param_state[Built][1].queue = << Command("remove_resource", 1) >>
    /\ param_state[Built][2].queue = << Command("insert_resource", 1) >>

(***************************************************************************)
(* The invocations of one system that holds several change-observing       *)
(* parameters, while the change tick of the World advances between them.   *)
(***************************************************************************)
\* the systems that are invoked: the first resource is in the World, the
\* second is not, so that an Option over the second is None
ObservingSystems ==
    { << Param("Res", 1), Param("OptionRes", 1), Param("NonSend", 1),
         Param("OptionNonSend", 2), Param("SystemChangeTick", 0) >>,
      << Param("ResMut", 1), Param("SystemChangeTick", 0),
         Param("OptionResMut", 2) >>,
      << Param("NonSendMut", 1), Param("OptionNonSendMut", 2),
         Param("SystemChangeTick", 0) >>,
      << Param("SystemChangeTick", 0), Param("OptionResMut", 1),
         Param("OptionNonSend", 2) >>,
      << Param("OptionNonSendMut", 1), Param("OptionRes", 2) >> }

InitObserving ==
    /\ world_tick \in {0, TickModulus - 1}
    /\ resources = [id \in ResourceIds |->
                       IF id = 1
                       THEN [present |-> TRUE, added |-> world_tick,
                             changed |-> world_tick]
                       ELSE Slot]
    /\ archetypes = {1}
    /\ removed = [c \in ComponentIds |-> << >>]
    /\ InitIdle
    /\ InitGizmos
    /\ InitBuilt({ [s \in Systems |-> IF s = Built THEN ps ELSE << >>] :
                   ps \in ObservingSystems })

NextObserving ==
    \/ increment_change_tick
    \/ BeginRun(Built)
    \/ GetParamRes(Built)
    \/ GetParamOptionRes(Built)
    \/ GetParamResMut(Built)
    \/ GetParamOptionResMut(Built)
    \/ GetParamNonSend(Built)
    \/ GetParamOptionNonSend(Built)
    \/ GetParamNonSendMut(Built)
    \/ GetParamOptionNonSendMut(Built)
    \/ GetParamSystemChangeTick(Built)
    \/ EndRun(Built)

SpecObserving == InitObserving /\ [][NextObserving]_vars

(***************************************************************************)
(* C38.  Within one invocation every change-observing item (Res, ResMut,   *)
(* NonSend, NonSendMut, an Option of them that is Some, SystemChangeTick)  *)
(* carries the same pair of ticks: its last_change_tick is the             *)
(* last_change_tick recorded in the SystemMeta of the system and its       *)
(* change_tick is the tick the invocation was given, which is the change   *)
(* tick of the World for as long as the invocation lasts.                  *)
(***************************************************************************)
ObservingKinds == {"Res", "ResMut", "NonSend", "NonSendMut", "SystemChangeTick"}

ObservingItems(s) ==
    { i \in DOMAIN items[s] :
        items[s][i].kind \in ObservingKinds /\ items[s][i].some }

C38_ItemsShareTicks ==
    \A s \in Systems :
        /\ \A i \in ObservingItems(s) :
              /\ items[s][i].last_change_tick = system_meta[s].last_change_tick
              /\ items[s][i].change_tick = run_tick[s]
        /\ phase[s] \in {"fetching", "running"} => run_tick[s] = world_tick

\* the second invocation of a system of a Res, an Option<Res>, a NonSend,
\* an Option<NonSend> and a SystemChangeTick, two ticks after the first:
\* the four items that are Some carry the tick of the first invocation and
\* the tick of this one
C38_Witness ==
    /\ Len(params[Built]) = 5
    /\ phase[Built] = "running"
    /\ Cardinality(ObservingItems(Built)) = 4
    /\ ~ items[Built][4].some
    /\ system_meta[Built].last_change_tick # run_tick[Built]
    /\ \A i \in ObservingItems(Built) :
          /\ items[Built][i].last_change_tick
                = wrapping_sub(items[Built][i].change_tick, 2)
          /\ items[Built][i].change_tick = world_tick

(***************************************************************************)
(* C39.  An arc builder draws only when it is dropped: a step that is not  *)
(* the drop of a builder (a call of an arc method, a call of resolution)   *)
(* leaves what the GizmoBuffer has drawn as it was; the drop of a builder  *)
(* of an enabled buffer draws one line strip, of one position more than    *)
(* the resolution last set on the builder, or than resolution_from_angle   *)
(* of its angle when none was set; the drop of a builder of a disabled     *)
(* buffer draws nothing.  No step enables or disables the buffer.          *)
(***************************************************************************)
\* self.resolution.unwrap_or_else(|| resolution_from_angle(self.arc_angle))
EffectiveResolution(builder) ==
    IF builder.resolution.some THEN builder.resolution.value
    ELSE resolution_from_angle(builder.arc_angle)

\* the step ends the life of the builder
Dropped == gizmos.builder # NoBuilder /\ gizmos'.builder = NoBuilder

C39_DrawsAtDropOnly ==
    [][/\ gizmos'.enabled = gizmos.enabled
       /\ ~ Dropped
             => /\ gizmos'.strips = gizmos.strips
                /\ gizmos'.last = gizmos.last
       /\ (Dropped /\ gizmos.enabled)
             => /\ gizmos'.strips = gizmos.strips + 1
                /\ gizmos'.last.kind = "linestrip"
                /\ Len(gizmos'.last.positions)
                      = EffectiveResolution(gizmos.builder) + 1
       /\ (Dropped /\ ~ gizmos.enabled)
             => /\ gizmos'.strips = gizmos.strips
                /\ gizmos'.last = gizmos.last]_vars

\* an arc of one angle unit, whose default resolution is 4, was dropped
\* after resolution(2): the strip drawn has 3 positions
C39_Witness ==
    /\ gizmos.enabled
    /\ gizmos.builder = NoBuilder
    /\ gizmos.strips = 1
    /\ gizmos.last.kind = "linestrip"
    /\ Len(gizmos.last.positions) = 3
    /\ gizmos.last.positions[2][1] = 1
    /\ resolution_from_angle(1) = 4

====
